---- MODULE Spec2Model ----
(***************************************************************************)
(* The rollback-safe storage engine of hydrant: the Db orchestrator        *)
(* (src/src/db/mod.rs) over the tables slots, volatile_block, volatile_tx  *)
(* and indexer_ids, and the reference UtxoIndexer                          *)
(* (src/src/indexer/utxo.rs) with its tables utxos, by_address, by_asset.  *)
(*                                                                         *)
(* Option<T> is a sequence of length 0 (None) or 1 (Some).  A table is a   *)
(* function from its keys to its values; a DUP_SORT table is a set of      *)
(* <<key, value>> pairs.  A TxOutputPointer is <<tx hash, index>>.         *)
(***************************************************************************)
EXTENDS Integers, Sequences, FiniteSets, TLC

(* ------------------------------ bounds ------------------------------- *)

\* slots of the blocks fed to the engine are 1..MaxSlot
MaxSlot == 3
\* a block carries at most MaxBlockTxs transactions
MaxBlockTxs == 2
\* slot keys are KeyWidth digits of base KeyBase (u64 big endian: 8 of 256)
KeyBase == 2
KeyWidth == 3

\* Db.max_rollback_blocks, the argument of Db::new
max_rollback_blocks == 1

(* --------------------------- primitive model -------------------------- *)

None == <<>>
Some(x) == <<x>>

Asset(p, n) == [policy |-> p, name |-> n]
TxOutput(a, as) == [address |-> a, assets |-> as]

\* AssetId { policy, name: Option<AssetName> }
AssetId(p, n) == [policy |-> p, name |-> n]

\* impl From<&Asset> for AssetId
AssetIdFrom(asset) == AssetId(asset.policy, Some(asset.name))

\* impl PartialEq<Asset> for AssetId: a missing name matches every name
AssetIdEq(id, asset) ==
    /\ id.policy = asset.policy
    /\ (id.name = None \/ id.name[1] = asset.name)

\* TxOutputPointer::new(hash, index)
Pointer(h, i) == <<h, i>>

\* outputs that exist before the first block (spendable, produced by no tx)
Genesis == {Pointer(0, 0), Pointer(0, 1)}

\* The transactions of the model: a tx hash determines its content.
TxOf(h) ==
    CASE h = 1 -> [hash |-> 1, valid |-> TRUE,
                   inputs |-> <<Pointer(0, 0)>>,
                   outputs |-> <<TxOutput("A", <<Asset("P1", "n1")>>),
                                 TxOutput("B", <<Asset("P2", "n1")>>)>>,
                   collateral |-> <<>>, collateral_return |-> None]
      [] h = 2 -> [hash |-> 2, valid |-> TRUE,
                   inputs |-> <<Pointer(1, 0)>>,
                   outputs |-> <<TxOutput("B", <<Asset("P1", "n2")>>)>>,
                   collateral |-> <<>>, collateral_return |-> None]
      [] h = 3 -> [hash |-> 3, valid |-> FALSE,
                   inputs |-> <<Pointer(1, 0)>>,
                   outputs |-> <<TxOutput("A", <<Asset("P1", "n1")>>)>>,
                   collateral |-> <<Pointer(1, 1)>>,
                   collateral_return |-> Some(TxOutput("A", <<>>))]

TxHashes == {1, 2, 3}

\* Tx::parse, second component: the inline datums of the outputs, and of the
\* collateral return of an invalid tx, by hash (a HashMap; no tx of the model
\* carries two, so it has one iteration order)
Datums(h) ==
    CASE h = 1 -> <<11>>
      [] h = 2 -> <<12>>
      [] h = 3 -> <<13>>

\* Tx::spent
spent(tx) == IF tx.valid THEN tx.inputs ELSE tx.collateral

\* Tx::unspent: outputs.iter().filter(|_| self.valid)
unspent(tx) == IF tx.valid THEN tx.outputs ELSE <<>>

(* ------------------------------- tables ------------------------------- *)

Empty == <<>>
Put(t, k, v) == [x \in (DOMAIN t) \cup {k} |-> IF x = k THEN v ELSE t[x]]
Delete(t, k) == [x \in (DOMAIN t) \ {k} |-> t[x]]
Has(t, k) == k \in DOMAIN t

\* lexicographic order of byte strings, the order of the keys of a table
RECURSIVE LexLess(_, _)
LexLess(a, b) ==
    IF a = <<>> THEN b # <<>>
    ELSE IF b = <<>> THEN FALSE
    ELSE IF Head(a) # Head(b) THEN Head(a) < Head(b)
    ELSE LexLess(Tail(a), Tail(b))

\* a slot key with the least significant digit first
RECURSIVE LittleEndian(_, _)
LittleEndian(n, width) ==
    IF width = 0 THEN <<>>
    ELSE <<n % KeyBase>> \o LittleEndian(n \div KeyBase, width - 1)

\* U64<BigEndian>: the most significant digit first
RECURSIVE BigEndian(_, _)
BigEndian(n, width) ==
    IF width = 0 THEN <<>>
    ELSE Append(BigEndian(n \div KeyBase, width - 1), n % KeyBase)

SlotKey(slot) == BigEndian(slot, KeyWidth)

\* u64::MAX: the greatest slot a key of KeyWidth digits holds
U64_MAX == KeyBase ^ KeyWidth - 1

\* the keys of `keys` in ascending order of their encoding
RECURSIVE Ascending(_)
Ascending(keys) ==
    IF keys = {} THEN <<>>
    ELSE LET m == CHOOSE k \in keys :
                     \A o \in keys \ {k} : LexLess(SlotKey(k), SlotKey(o))
         IN <<m>> \o Ascending(keys \ {m})

\* the keys of `keys` in descending order of their encoding
RECURSIVE Descending(_)
Descending(keys) ==
    IF keys = {} THEN <<>>
    ELSE LET m == CHOOSE k \in keys :
                     \A o \in keys \ {k} : LexLess(SlotKey(o), SlotKey(k))
         IN <<m>> \o Descending(keys \ {m})

\* a range that leaves out its lower bound
RevRangeAfter(tbl, from) ==
    Descending({k \in DOMAIN tbl : LexLess(SlotKey(from), SlotKey(k))})

\* slots.rev_range(&(from..)): the slots >= from, newest first
rev_range(tbl, from) ==
    Descending({k \in DOMAIN tbl : ~LexLess(SlotKey(k), SlotKey(from))})

\* the bytes of the indexer ids (heed Str keys are compared as bytes)
StrBytes(id) ==
    CASE id = "all" -> <<97, 108, 108>>
      [] id = "aux" -> <<97, 117, 120>>
      [] id = "empty" -> <<101, 109, 112, 116, 121>>
      [] id = "utxo" -> <<117, 116, 120, 111>>

\* indexer_ids.iter(): the keys in ascending byte order
RECURSIVE iter(_)
iter(keys) ==
    IF keys = {} THEN <<>>
    ELSE LET m == CHOOSE k \in keys :
                     \A o \in keys \ {k} : LexLess(StrBytes(k), StrBytes(o))
         IN <<m>> \o iter(keys \ {m})

Range(s) == {s[i] : i \in DOMAIN s}

\* a sequence in the order it is stored in
Forward(s) == s

Reverse(s) == [i \in 1..Len(s) |-> s[Len(s) + 1 - i]]

(* ------------------------------- state -------------------------------- *)

VARIABLES
    slots,           \* Db.slots: slot -> BlockHash
    volatile_block,  \* Db.volatile_block: BlockHash -> VolatileBlock
    volatile_tx,     \* Db.volatile_tx: TxHash -> Tx
    indexer_ids,     \* Db.indexer_ids: the set of its keys (values are unit)
    utxos,           \* UtxoIndexer.utxos: TxOutputPointer -> TxOutput
    by_address,      \* UtxoIndexer.by_address: pairs <<Address, pointer>>
    by_asset,        \* UtxoIndexer.by_asset: pairs <<AssetId, pointer>>
    addresses,       \* UtxoIndexer.addresses: Option<Vec<Address>>
    assets,          \* UtxoIndexer.assets: Option<Vec<AssetId>>
    live,            \* the IndexerList of the running process (ids, in order)
    hung,            \* the writer thread is blocked for ever
    op,              \* the last operation called
    result,          \* what it returned: "ok", "err" or "none"
    chain,           \* history: slot -> the block the node sent for it
    trimmed,         \* history: hashes of the blocks trim_volatile evicted
    rt,              \* history: the state before the last roll_forward
    recorded,        \* history: Option of the id list written to indexer_ids
    discarded,       \* history: the last call dropped a transaction with writes
    guards,          \* Env.resize_lock: thread -> shared guards it holds
    excl,            \* Env.resize_lock: Option of the thread holding it exclusively
    txns,            \* thread -> its live transactions (RoTxn / RwTxn)
    pc,              \* where the writer thread is in its call
    rpc,             \* where a reading thread is (UtxoIndexer::utxos)
    call,            \* the call the writer thread is in
    received,        \* history: the chain-sync responses Sync::next got, a
                     \* run of Awaits kept as one
    pending_fetches, \* Sync.pending_fetches: headers waiting for their block
    tosend,          \* the events Sync::next still has to send before it returns
    spc,             \* where the Sync task is
    queue,           \* the channel of Writer: events sent and not yet received
    sent,            \* history: the events the channel accepted
    applied,         \* history: the events the writer applied to the Db
    wtask,           \* the writer task: "running", "returned" or "failed"
    shutdown,        \* Writer::stop ran: tx dropped, shutdown signal sent
    mismatch,        \* history: a block-fetch returned a wrong number of blocks
    stop_result,     \* what Writer::stop returned: "none" while it has not
    written,         \* history: the event the writer task took last and the
                     \* Db calls write_event made for it
    fetches,         \* history: the range of each block-fetch, and how many
                     \* headers were pending when it was requested
    intersect,       \* history: the intersection Sync::new asked for, and the answer
    calls,           \* history: the indexer hooks and commits of the last Db call
    db_names,        \* Env.db_names: the names registered by Env::create_database
    opened,          \* history: name -> how many handles were opened on it
    map_size,        \* heed env.info().map_size
    page_size,       \* Env.page_size
    last_page_number,\* heed env.info().last_page_number
    snapshot         \* where a thread calling Env::snapshot is

tables == <<slots, volatile_block, volatile_tx, indexer_ids,
            utxos, by_address, by_asset>>
config == <<addresses, assets>>
lockv == <<guards, excl, txns, pc, rpc, call>>
pipev == <<received, pending_fetches, tosend, spc, queue, sent, applied,
           wtask, shutdown, mismatch, fetches, written, stop_result,
           intersect>>
envv == <<map_size, page_size, last_page_number, snapshot>>
extv == <<calls, db_names, opened, envv>>
runtime == <<lockv, pipev, extv>>
vars == <<tables, config, live, hung, op, result, chain, trimmed, rt,
          recorded, discarded, runtime>>

\* the tables as one value: what a transaction reads and writes
Store ==
    [slots |-> slots, volatile_block |-> volatile_block,
     volatile_tx |-> volatile_tx, indexer_ids |-> indexer_ids,
     utxos |-> utxos, by_address |-> by_address, by_asset |-> by_asset]

Install(st) ==
    /\ slots' = st.slots
    /\ volatile_block' = st.volatile_block
    /\ volatile_tx' = st.volatile_tx
    /\ indexer_ids' = st.indexer_ids
    /\ utxos' = st.utxos
    /\ by_address' = st.by_address
    /\ by_asset' = st.by_asset

\* RwTxn::commit makes the writes of the transaction the content of the tables
Commit(before, txn) == txn
\* a drop that leaves the writes of the transaction in the tables
AbortKeepsWrites(before, txn) == txn

\* dropping a RwTxn (an early return by `?`) aborts it
Abort(before, txn) == before

(* ---------------------------- UtxoIndexer ----------------------------- *)

\* UtxoIndexer::insert_output
insert_output(st, pointer, output) ==
    IF addresses # None /\ output.address \in Range(addresses[1])
    THEN [st |-> st, ret |-> FALSE]
    ELSE IF /\ assets # None
            /\ ~(\E w \in Range(assets[1]) :
                   \E i \in DOMAIN output.assets : AssetIdEq(w, output.assets[i]))
    THEN [st |-> st, ret |-> FALSE]
    ELSE [st |-> [st EXCEPT
                    !.utxos = Put(@, pointer, output),
                    !.by_address = @ \cup {<<output.address, pointer>>},
                    !.by_asset = @ \cup {<<AssetIdFrom(output.assets[i]), pointer>> :
                                           i \in DOMAIN output.assets}],
          ret |-> TRUE]

\* a consume_input that leaves the entries of by_asset in place
ConsumeKeepsAssets(st, input) ==
    IF ~Has(st.utxos, input) THEN [st |-> st, ret |-> FALSE]
    ELSE [st |-> [st EXCEPT
                    !.utxos = Delete(@, input),
                    !.by_address = @ \ {<<st.utxos[input].address, input>>}],
          ret |-> TRUE]

\* UtxoIndexer::consume_input
consume_input(st, input) ==
    IF ~Has(st.utxos, input) THEN [st |-> st, ret |-> FALSE]
    ELSE LET utxo == st.utxos[input]
         IN [st |-> [st EXCEPT
                       !.utxos = Delete(@, input),
                       !.by_address = @ \ {<<utxo.address, input>>},
                       !.by_asset = @ \ {<<AssetIdFrom(utxo.assets[i]), input>> :
                                           i \in DOMAIN utxo.assets}],
             ret |-> TRUE]

\* insert_tx, first loop: for input in tx.spent()
RECURSIVE ConsumeSpent(_, _, _)
ConsumeSpent(st, inputs, added) ==
    IF inputs = <<>> THEN [st |-> st, ret |-> added]
    ELSE LET r == consume_input(st, Head(inputs))
         IN ConsumeSpent(r.st, Tail(inputs), added \/ r.ret)

\* insert_tx, second loop: for (index, output) in tx.unspent().enumerate()
RECURSIVE InsertUnspent(_, _, _, _, _)
InsertUnspent(st, hash, outputs, index, added) ==
    IF index >= Len(outputs) THEN [st |-> st, ret |-> added]
    ELSE LET r == insert_output(st, Pointer(hash, index), outputs[index + 1])
         IN InsertUnspent(r.st, hash, outputs, index + 1, added \/ r.ret)

\* impl Indexer for UtxoIndexer: insert_tx
insert_tx(st, tx) ==
    LET c == ConsumeSpent(st, spent(tx), FALSE)
    IN InsertUnspent(c.st, tx.hash, unspent(tx), 0, c.ret)

\* Db::get_volatile_tx_output: ok = FALSE is the error "missing output"
get_volatile_tx_output(st, pointer) ==
    IF ~Has(st.volatile_tx, pointer[1]) THEN [ok |-> TRUE, out |-> None]
    ELSE LET tx == st.volatile_tx[pointer[1]]
         IN IF pointer[2] + 1 \in DOMAIN tx.outputs
            THEN [ok |-> TRUE, out |-> Some(tx.outputs[pointer[2] + 1])]
            ELSE [ok |-> FALSE, out |-> None]

\* delete_tx, first loop: restore consumed UTxOs
RECURSIVE RestoreSpent(_, _)
RestoreSpent(st, inputs) ==
    IF inputs = <<>> THEN [st |-> st, ok |-> TRUE]
    ELSE LET o == get_volatile_tx_output(st, Head(inputs))
         IN IF ~o.ok \/ o.out = None
            THEN [st |-> st, ok |-> FALSE]
            ELSE RestoreSpent(insert_output(st, Head(inputs), o.out[1]).st,
                              Tail(inputs))

\* delete_tx, second loop: remove UTxOs
RECURSIVE RemoveUnspent(_, _, _, _)
RemoveUnspent(st, hash, outputs, index) ==
    IF index >= Len(outputs) THEN st
    ELSE RemoveUnspent(consume_input(st, Pointer(hash, index)).st,
                       hash, outputs, index + 1)

\* impl Indexer for UtxoIndexer: delete_tx
delete_tx(st, tx) ==
    LET r == RestoreSpent(st, spent(tx))
    IN IF ~r.ok THEN [st |-> r.st, ok |-> FALSE]
       ELSE [st |-> RemoveUnspent(r.st, tx.hash, unspent(tx), 0), ok |-> TRUE]

\* impl Indexer for UtxoIndexer: clear
clear_utxo(st) ==
    [st EXCEPT !.utxos = Empty, !.by_address = {}, !.by_asset = {}]

(* -------------------------- Indexer contract -------------------------- *)

\* the ids an indexer list is made of: "utxo" is the UtxoIndexer, "aux" an
\* indexer that keeps the trait's default hooks and owns no table, "all" an
\* indexer that owns no table and answers Ok(true) to every insert hook
IndexerIds == {"all", "aux", "utxo"}
IndexerLists == {<<>>, <<"utxo">>, <<"aux", "utxo">>, <<"utxo", "aux">>}

\* Indexer::insert_tx of the indexer `id` (the default returns Ok(false))
IndexerInsertTx(id, st, tx) ==
    IF id = "utxo" THEN insert_tx(st, tx) ELSE [st |-> st, ret |-> id = "all"]

\* Indexer::delete_tx of the indexer `id` (the default returns Ok(()))
IndexerDeleteTx(id, st, tx) ==
    IF id = "utxo" THEN delete_tx(st, tx) ELSE [st |-> st, ok |-> TRUE]

\* Indexer::insert_datum of the indexer `id` (the default returns Ok(false);
\* the UtxoIndexer keeps the default)
IndexerInsertDatum(id, st, hash) == [st |-> st, ret |-> id = "all"]

\* Indexer::delete_datum of the indexer `id` (the default returns Ok(()))
IndexerDeleteDatum(id, st, hash) == [st |-> st, ok |-> TRUE]

\* a clear that leaves the indexer's tables as they are
IndexerClearNothing(id, st) == st

\* Indexer::clear of the indexer `id`
IndexerClear(id, st) ==
    IF id = "utxo" THEN clear_utxo(st) ELSE st

(* --------------------------------- Db --------------------------------- *)

Origin == <<"Origin">>
Specific(slot, hash) == <<"Specific", slot, hash>>

\* a block as the node sends it; its hash stands for its content
BlockHash(block) == <<block.slot, block.txs>>

\* VolatileBlock::parse
VolatileBlock(block, tx_hashes, datum_hashes) ==
    [hash |-> BlockHash(block), number |-> block.slot, slot |-> block.slot,
     txs |-> tx_hashes, datums |-> datum_hashes]

\* Db::assert_indexer_ids.  `writing`: the caller already holds the write
\* transaction of the environment, so env.write_txn() never returns.
assert_indexer_ids(st, ids, writing) ==
    IF st.indexer_ids = {}
    THEN IF writing
         THEN [st |-> st, out |-> "hang"]
         ELSE [st |-> [st EXCEPT !.indexer_ids =
                          IF ids = <<>> THEN {"empty"} ELSE Range(ids)],
               out |-> "ok"]
    ELSE IF iter(st.indexer_ids) = ids
         THEN [st |-> st, out |-> "ok"]
         ELSE [st |-> st, out |-> "err"]

\* Db::tip
tip(st) ==
    LET r == rev_range(st.slots, 0)
    IN IF r = <<>> THEN Origin ELSE Specific(r[1], st.slots[r[1]])

\* one entry of the log of calls: a hook of the indexer `id`, or a step of
\* the engine (id = "")
Called(hook, id, arg, ret) == [hook |-> hook, id |-> id, arg |-> arg, ret |-> ret]

\* a fold that stops at the first indexer that returns true
RECURSIVE FoldInsertTxUntilTrue(_, _, _, _)
FoldInsertTxUntilTrue(ids, st, tx, acc) ==
    IF ids = <<>> \/ acc THEN [st |-> st, ret |-> acc, calls |-> <<>>]
    ELSE LET r == IndexerInsertTx(Head(ids), st, tx)
             f == FoldInsertTxUntilTrue(Tail(ids), r.st, tx, acc \/ r.ret)
         IN [f EXCEPT !.calls =
                <<Called("insert_tx", Head(ids), tx.hash, r.ret)>> \o @]

\* the calls `c`, then the calls of what followed
Logged(c, f) == [f EXCEPT !.calls = c \o @]

\* roll_forward: indexers.iter().try_fold(false, |acc, i| insert_tx.map(acc || b))
RECURSIVE FoldInsertTx(_, _, _, _)

\* the closure of the fold: indexer Head(ids) answered r, then acc || b
InsertTxStep(ids, tx, acc, r) ==
    Logged(<<Called("insert_tx", Head(ids), tx.hash, r.ret)>>,
           FoldInsertTx(Tail(ids), r.st, tx, acc \/ r.ret))

FoldInsertTx(ids, st, tx, acc) ==
    IF ids = <<>> THEN [st |-> st, ret |-> acc, calls |-> <<>>]
    ELSE InsertTxStep(ids, tx, acc, IndexerInsertTx(Head(ids), st, tx))

\* roll_forward: indexers.iter().try_fold(false, |acc, i| insert_datum.map(acc || b))
RECURSIVE FoldInsertDatum(_, _, _, _)

\* the closure of the fold: indexer Head(ids) answered r, then acc || b
InsertDatumStep(ids, hash, acc, r) ==
    Logged(<<Called("insert_datum", Head(ids), hash, r.ret)>>,
           FoldInsertDatum(Tail(ids), r.st, hash, acc \/ r.ret))

FoldInsertDatum(ids, st, hash, acc) ==
    IF ids = <<>> THEN [st |-> st, ret |-> acc, calls |-> <<>>]
    ELSE InsertDatumStep(ids, hash, acc, IndexerInsertDatum(Head(ids), st, hash))

\* roll_forward: if did_insert_datum { datum_hashes.push(datum_hash) }, with
\* p what the later datums added
PushDatum(r, hash, p) ==
    [p EXCEPT !.datum_hashes = (IF r.ret THEN <<hash>> ELSE <<>>) \o @,
              !.calls = r.calls \o @]

\* roll_forward: for (datum_hash, datum) in datums.iter()
RECURSIVE ProcessDatums(_, _, _)

\* the body of the loop after the fold answered r
DatumStep(ids, datums, r) ==
    PushDatum(r, Head(datums), ProcessDatums(ids, r.st, Tail(datums)))

ProcessDatums(ids, st, datums) ==
    IF datums = <<>> THEN [st |-> st, datum_hashes |-> <<>>, calls |-> <<>>]
    ELSE DatumStep(ids, datums, FoldInsertDatum(ids, st, Head(datums), FALSE))

\* roll_forward: for raw_tx in block.txs()
RECURSIVE ProcessTxs(_, _, _, _)

\* the rest of the loop after the datums of a tx: d, preceded by the calls
\* of its insert_tx fold
AfterDatums(ids, txs, tx_hashes, before, d) ==
    [ProcessTxs(ids, d.st, Tail(txs), tx_hashes) EXCEPT
        !.datum_hashes = d.datum_hashes \o @,
        !.calls = before \o d.calls \o @]

\* roll_forward: if did_insert_tx { tx_hashes.push; volatile_tx.put }, then
\* the datums of the tx
TxStep(ids, txs, tx_hashes, tx, r) ==
    AfterDatums(ids, txs,
                IF r.ret THEN Append(tx_hashes, tx.hash) ELSE tx_hashes,
                r.calls,
                ProcessDatums(ids,
                    IF r.ret
                    THEN [r.st EXCEPT !.volatile_tx = Put(@, tx.hash, tx)]
                    ELSE r.st,
                    Datums(tx.hash)))

ProcessTxs(ids, st, txs, tx_hashes) ==
    IF txs = <<>>
    THEN [st |-> st, tx_hashes |-> tx_hashes, datum_hashes |-> <<>>,
          calls |-> <<>>]
    ELSE TxStep(ids, txs, tx_hashes, TxOf(Head(txs)),
                FoldInsertTx(ids, st, TxOf(Head(txs)), FALSE))

\* roll_forward after the id check answered a and the loop over the txs p:
\* the puts of the block record and of the slot, and the commit
PutBlock(st, block, failAt, a, p) ==
    IF a.out = "hang"
    THEN [st |-> st, out |-> "hang", dirty |-> FALSE, calls |-> <<>>]
    ELSE IF a.out = "err"
    THEN [st |-> Abort(st, st), out |-> "err", dirty |-> FALSE, calls |-> <<>>]
    ELSE IF failAt # 0
    THEN [st |-> Abort(st, p.st), out |-> "err", dirty |-> p.st # st,
          calls |-> p.calls]
    ELSE [st |-> Commit(st,
                   [p.st EXCEPT
                      !.volatile_block =
                          Put(@, BlockHash(block),
                              VolatileBlock(block, p.tx_hashes, p.datum_hashes)),
                      !.slots = Put(@, block.slot, BlockHash(block))]),
          out |-> "ok", dirty |-> FALSE, calls |-> p.calls]

\* Db::roll_forward.  failAt = 0: no storage error; failAt = k: a storage
\* call fails while tx k is processed (k = Len(txs) + 1: at the block put).
roll_forward(st, ids, block, failAt) ==
    PutBlock(st, block, failAt, assert_indexer_ids(st, ids, TRUE),
             ProcessTxs(ids, st,
                        SubSeq(block.txs, 1,
                               IF failAt = 0 THEN Len(block.txs) ELSE failAt - 1),
                        <<>>))

\* roll_backward: for indexer in indexers.iter() { indexer.delete_tx(..)? }
RECURSIVE FoldDeleteTx(_, _, _)

\* the body of the loop: indexer Head(ids) answered r, `?` ends the loop
DeleteTxStep(ids, tx, r) ==
    IF ~r.ok
    THEN [st |-> r.st, ok |-> FALSE,
          calls |-> <<Called("delete_tx", Head(ids), tx.hash, FALSE)>>]
    ELSE Logged(<<Called("delete_tx", Head(ids), tx.hash, TRUE)>>,
                FoldDeleteTx(Tail(ids), r.st, tx))

FoldDeleteTx(ids, st, tx) ==
    IF ids = <<>> THEN [st |-> st, ok |-> TRUE, calls |-> <<>>]
    ELSE DeleteTxStep(ids, tx, IndexerDeleteTx(Head(ids), st, tx))

\* roll_backward: for tx_hash in block.txs.iter().rev(); the tx is read
\* through rtxn (the snapshot `snap`), the indexers write through wtxn
RECURSIVE DeleteTxs(_, _, _, _)

\* the rest of the loop after the indexers answered r for Head(txs)
DeleteTxsStep(ids, snap, txs, r) ==
    IF ~r.ok THEN r
    ELSE Logged(r.calls, DeleteTxs(ids, snap, r.st, Tail(txs)))

DeleteTxs(ids, snap, st, txs) ==
    IF txs = <<>> THEN [st |-> st, ok |-> TRUE, calls |-> <<>>]
    ELSE IF ~Has(snap.volatile_tx, Head(txs))
    THEN [st |-> st, ok |-> FALSE, calls |-> <<>>]
    ELSE DeleteTxsStep(ids, snap, txs,
                       FoldDeleteTx(ids, st, snap.volatile_tx[Head(txs)]))

\* roll_backward: for indexer in indexers.iter() { indexer.delete_datum(..)? }
RECURSIVE FoldDeleteDatum(_, _, _)

\* the body of the loop: indexer Head(ids) answered r, `?` ends the loop
DeleteDatumStep(ids, hash, r) ==
    IF ~r.ok
    THEN [st |-> r.st, ok |-> FALSE,
          calls |-> <<Called("delete_datum", Head(ids), hash, FALSE)>>]
    ELSE Logged(<<Called("delete_datum", Head(ids), hash, TRUE)>>,
                FoldDeleteDatum(Tail(ids), r.st, hash))

FoldDeleteDatum(ids, st, hash) ==
    IF ids = <<>> THEN [st |-> st, ok |-> TRUE, calls |-> <<>>]
    ELSE DeleteDatumStep(ids, hash, IndexerDeleteDatum(Head(ids), st, hash))

\* roll_backward: for datum_hash in block.datums.iter().rev()
RECURSIVE DeleteDatums(_, _, _)

\* the rest of the loop after the indexers answered r for Head(datums)
DeleteDatumsStep(ids, datums, r) ==
    IF ~r.ok THEN r
    ELSE Logged(r.calls, DeleteDatums(ids, r.st, Tail(datums)))

DeleteDatums(ids, st, datums) ==
    IF datums = <<>> THEN [st |-> st, ok |-> TRUE, calls |-> <<>>]
    ELSE DeleteDatumsStep(ids, datums, FoldDeleteDatum(ids, st, Head(datums)))

\* roll_backward: the delete_tx loop answered t; if it did not fail, the
\* delete_datum loop, its calls after those of t
UndoHooks(ids, block, t) ==
    IF ~t.ok THEN t
    ELSE Logged(t.calls, DeleteDatums(ids, t.st, Reverse(block.datums)))

\* roll_backward: for res in self.slots.rev_range(&rtxn, &(slot..)), one
\* write transaction per slot
RECURSIVE RollBackSlots(_, _, _, _)

\* the write transaction of a slot after its hooks answered d: the deletes
\* of the slot's entries and the commit, then the next slot
UndoSlot(ids, snap, st, todo, d) ==
    IF ~d.ok
    THEN [st |-> Abort(st, d.st), out |-> "err", dirty |-> d.st # st,
          calls |-> <<Called("write_txn", "", Head(todo), TRUE)>> \o d.calls]
    ELSE Logged(<<Called("write_txn", "", Head(todo), TRUE)>> \o d.calls \o
                <<Called("delete", "", Head(todo), TRUE),
                  Called("commit", "", Head(todo), TRUE)>>,
                RollBackSlots(ids, snap,
                    Commit(st, [d.st EXCEPT
                        !.slots = Delete(@, Head(todo)),
                        !.volatile_block = Delete(@, snap.slots[Head(todo)])]),
                    Tail(todo)))

RollBackSlots(ids, snap, st, todo) ==
    IF todo = <<>>
    THEN [st |-> st, out |-> "ok", dirty |-> FALSE, calls |-> <<>>]
    ELSE IF ~Has(snap.volatile_block, snap.slots[Head(todo)])
    THEN [st |-> st, out |-> "err", dirty |-> FALSE, calls |-> <<>>]
    ELSE UndoSlot(ids, snap, st, todo,
             UndoHooks(ids, snap.volatile_block[snap.slots[Head(todo)]],
                 DeleteTxs(ids, snap, st,
                     Reverse(snap.volatile_block[snap.slots[Head(todo)]].txs))))

\* Db::clear
RECURSIVE ClearIndexers(_, _)
ClearIndexers(ids, st) ==
    IF ids = <<>> THEN st
    ELSE ClearIndexers(Tail(ids), IndexerClear(Head(ids), st))

clear(st, ids) ==
    Commit(st, ClearIndexers(ids,
        [st EXCEPT !.slots = Empty, !.volatile_block = Empty,
                   !.volatile_tx = Empty, !.indexer_ids = {}]))

\* Db::roll_backward.  `*slot + 1` is u64 arithmetic: at u64::MAX it panics in
\* a build with overflow checks and wraps around to 0 in one without.
roll_backward(st, ids, point, overflow_checks) ==
    IF point = Origin
    THEN [st |-> clear(st, ids), out |-> "ok", dirty |-> FALSE, calls |-> <<>>]
    ELSE IF point[2] = U64_MAX /\ overflow_checks
    THEN [st |-> st, out |-> "panic", dirty |-> FALSE, calls |-> <<>>]
    ELSE LET slot == (point[2] + 1) % (U64_MAX + 1)
             a == assert_indexer_ids(st, ids, FALSE)
         IN IF a.out = "err"
            THEN [st |-> st, out |-> "err", dirty |-> FALSE, calls |-> <<>>]
            ELSE RollBackSlots(ids, st, a.st, rev_range(st.slots, slot))

\* trim_volatile: drop all the txs in the block
RECURSIVE DeleteAll(_, _)
DeleteAll(t, keys) ==
    IF keys = <<>> THEN t ELSE DeleteAll(Delete(t, Head(keys)), Tail(keys))

\* skip that passes over one element too few, and one too many
SkipOneLess(s, n) == SubSeq(s, n, Len(s))
SkipOneMore(s, n) == SubSeq(s, n + 2, Len(s))

\* Iterator::skip
Skip(s, n) == SubSeq(s, n + 1, Len(s))

\* a loop body that drops the txs and keeps the block
TrimBlockKeepsRecord(txn, block) ==
    [txn EXCEPT !.volatile_tx = DeleteAll(@, Reverse(block.txs))]

\* trim_volatile, the loop body: drop all the txs in the block, drop the block
TrimBlock(txn, block) ==
    [txn EXCEPT !.volatile_tx = DeleteAll(@, Reverse(block.txs)),
                !.volatile_block = Delete(@, block.hash)]

\* trim_volatile: the loop; blocks are read through rtxn (`snap`), and the
\* first slot without a block ends it
RECURSIVE TrimSlots(_, _, _)
TrimSlots(snap, txn, todo) ==
    IF todo = <<>> THEN txn
    ELSE LET block_hash == snap.slots[Head(todo)]
         IN IF ~Has(snap.volatile_block, block_hash) THEN txn
            ELSE TrimSlots(snap, TrimBlock(txn, snap.volatile_block[block_hash]),
                           Tail(todo))

\* Db::trim_volatile
trim_volatile(st) ==
    Commit(st, TrimSlots(st, st, Skip(rev_range(st.slots, 0), max_rollback_blocks)))

(* ------------------------- the node's chain --------------------------- *)

\* the txs of the chain in chain order
RECURSIVE ChainTxsFrom(_, _)
ChainTxsFrom(ch, s) ==
    IF s > MaxSlot THEN <<>>
    ELSE (IF s \in DOMAIN ch THEN ch[s].txs ELSE <<>>) \o ChainTxsFrom(ch, s + 1)

ChainTxs(ch) == ChainTxsFrom(ch, 1)

\* what a tx spends and produces by the ledger's rules: a valid tx spends its
\* inputs and produces its outputs, an invalid one spends its collateral
LedgerSpends(tx) == Range(IF tx.valid THEN tx.inputs ELSE tx.collateral)
LedgerProduces(tx) ==
    IF tx.valid THEN {Pointer(tx.hash, i - 1) : i \in DOMAIN tx.outputs} ELSE {}

\* the unspent outputs after the txs `txs` are applied to the unspent set u
RECURSIVE LedgerAfter(_, _)
LedgerAfter(u, txs) ==
    IF txs = <<>> THEN u
    ELSE LET tx == TxOf(Head(txs))
         IN LedgerAfter((u \ LedgerSpends(tx)) \cup LedgerProduces(tx), Tail(txs))

\* every tx of `txs` spends only outputs that are unspent when it is applied
RECURSIVE LedgerValid(_, _)
LedgerValid(u, txs) ==
    IF txs = <<>> THEN TRUE
    ELSE LET tx == TxOf(Head(txs))
         IN /\ LedgerSpends(tx) \subseteq u
            /\ LedgerValid((u \ LedgerSpends(tx)) \cup LedgerProduces(tx), Tail(txs))

\* the greatest element of a non-empty set of slots
MaxOf(S) == CHOOSE m \in S : \A k \in S : k <= m

TxSeqs ==
    {t \in UNION {[1..n -> TxHashes] : n \in 0..MaxBlockTxs} :
        \A i, j \in DOMAIN t : i # j => t[i] # t[j]}

Blocks == {[slot |-> s, txs |-> t] : s \in 1..MaxSlot, t \in TxSeqs}

\* the blocks the node can send next: a later slot than every stored one, and
\* txs the ledger accepts on top of the chain
NextBlocks ==
    LET u == LedgerAfter(Genesis, ChainTxs(chain))
    IN {b \in Blocks :
           /\ \A s \in DOMAIN slots : s < b.slot
           /\ LedgerValid(u, b.txs)}

\* the points the node can roll back to (the code reads only the slot)
Points ==
    {Origin} \cup
    {Specific(s, IF s \in DOMAIN slots THEN slots[s] ELSE <<s, <<>>>>) :
        s \in 0..MaxSlot}

NoRt == [phase |-> "none", pre |-> <<>>, point |-> Origin]

(* ------------------------------ actions ------------------------------- *)

Threads == {"writer", "reader"}
NoCall == [op |-> "none", arg |-> Origin]

\* no thread holds a guard or a transaction
LockInit ==
    /\ guards = [t \in Threads |-> 0]
    /\ excl = None
    /\ txns = [t \in Threads |-> 0]
    /\ pc = "idle"
    /\ rpc = "idle"
    /\ call = NoCall

\* Sync::new and Writer::new: nothing received, an empty channel, the writer
\* task spawned
PipeInit ==
    /\ received = <<>>
    /\ pending_fetches = <<>>
    /\ tosend = <<>>
    /\ spc = "next"
    /\ queue = <<>>
    /\ sent = <<>>
    /\ applied = <<>>
    /\ wtask = "running"
    /\ shutdown = FALSE
    /\ mismatch = FALSE
    /\ fetches = <<>>
    /\ stop_result = [out |-> "none", event |-> <<>>, fn |-> ""]
    /\ written = [event |-> [kind |-> "Await",
                              block |-> [slot |-> 0, txs |-> <<>>],
                              point |-> Origin, tip |-> 0],
                  calls |-> <<>>]
    /\ intersect = [request |-> Origin, found |-> TRUE]

\* the sub-databases of the engine (Db::new) and of the UtxoIndexer
EngineTables == {"slots", "volatile_tx", "volatile_block", "indexer_ids"}
UtxoTables == {"utxos", "by_address", "by_asset"}
TableNames == EngineTables \cup UtxoTables \cup {"extra"}

\* Db::new opened the engine's tables on the heed environment and wrapped it
\* (env.into(): db_names empty); UtxoIndexer::new then created its three
\* tables through the Env
ExtInit ==
    /\ calls = <<>>
    /\ db_names = UtxoTables
    /\ opened = [n \in TableNames |->
                   IF n \in EngineTables \cup UtxoTables THEN 1 ELSE 0]

\* the sizes 1 GiB = 1024^3 bytes are written in units of this many bytes,
\* so that minimum_free_space is a small number
minimum_free_space == 4

\* Db::new: map_size(1024 * 1024 * 1024 * 2), an empty environment, and the
\* page size of the system (one unit here); no snapshot is being taken
MapInit ==
    /\ map_size = 2 * minimum_free_space
    /\ page_size = 1
    /\ last_page_number = 0
    /\ snapshot = "idle"

\* the state after Db::new and the build of the indexers, but for the sizes
NewDb ==
    /\ slots = Empty
    /\ volatile_block = Empty
    /\ volatile_tx = Empty
    /\ indexer_ids = {}
    /\ utxos = Empty
    /\ by_address = {}
    /\ by_asset = {}
    /\ addresses \in {None, Some(<<"A">>)}
    /\ assets \in {None, Some(<<AssetId("P1", Some("n2")), AssetId("P2", None)>>)}
    /\ live = <<"aux", "utxo">>
    /\ hung = FALSE
    /\ op = "new"
    /\ result = "none"
    /\ chain = Empty
    /\ trimmed = {}
    /\ rt = NoRt
    /\ recorded = None
    /\ discarded = FALSE
    /\ LockInit
    /\ PipeInit
    /\ ExtInit

Init == NewDb /\ MapInit

\* a call of Db::roll_forward and what it leaves in the tables
RollForwardCall(block, failAt) ==
    /\ ~hung
    /\ \E r \in {roll_forward(Store, live, block, failAt)} :
          /\ Install(r.st)
          /\ hung' = (r.out = "hang")
          /\ op' = "roll_forward"
          /\ result' = IF r.out = "hang" THEN "none" ELSE r.out
          /\ chain' = IF r.out = "ok"
                      THEN Put(chain, block.slot,
                               [txs |-> block.txs,
                                kept |-> r.st.volatile_block[BlockHash(block)].txs])
                      ELSE chain
          /\ trimmed' = IF r.out = "ok"
                        THEN trimmed \ {BlockHash(block)} ELSE trimmed
          /\ discarded' = r.dirty
    /\ UNCHANGED <<config, live, recorded>>

\* the writer applies SyncEvent::RollForward
RollForward(block, failAt) ==
    /\ RollForwardCall(block, failAt)
    /\ UNCHANGED runtime
    /\ rt' = IF result' = "ok"
             THEN [phase |-> "forward", pre |-> Store, point |-> tip(Store)]
             ELSE NoRt

\* a call of Db::roll_backward and what it leaves in the tables; a panic ends
\* the writer
RollBackwardCall(point, overflow_checks) ==
    /\ ~hung
    /\ \E r \in {roll_backward(Store, live, point, overflow_checks)} :
          /\ Install(r.st)
          /\ op' = "roll_backward"
          /\ result' = r.out
          /\ hung' = (r.out = "panic")
          /\ chain' = [s \in DOMAIN r.st.slots |-> chain[s]]
          /\ trimmed' = trimmed \cap Range(r.st.slots)
          /\ discarded' = r.dirty
          /\ recorded' = IF r.out = "panic" THEN recorded
                         ELSE IF point = Origin THEN None
                         ELSE IF indexer_ids = {} THEN Some(live)
                         ELSE recorded
    /\ UNCHANGED <<config, live>>

\* the writer applies SyncEvent::RollBackward
RollBackward(point) ==
    /\ RollBackwardCall(point, FALSE)
    /\ UNCHANGED runtime
    /\ rt' = IF rt.phase = "forward" /\ point = rt.point
             THEN [rt EXCEPT !.phase = "back"]
             ELSE NoRt

\* a call of Db::trim_volatile and what it leaves in the tables
TrimVolatileCall ==
    /\ ~hung
    /\ \E st \in {trim_volatile(Store)} :
          /\ Install(st)
          /\ trimmed' = trimmed \cup
                          ((DOMAIN volatile_block) \ (DOMAIN st.volatile_block))
    /\ op' = "trim_volatile"
    /\ result' = "ok"
    /\ rt' = NoRt
    /\ discarded' = FALSE
    /\ UNCHANGED <<config, live, hung, chain, recorded>>

\* the writer calls trim_volatile
TrimVolatile ==
    /\ TrimVolatileCall
    /\ UNCHANGED runtime

\* the process is started again, with the indexer list `ids`
Reopen(ids) ==
    /\ ids # live
    /\ live' = ids
    /\ hung' = FALSE
    /\ op' = "reopen"
    /\ result' = "none"
    /\ rt' = NoRt
    /\ discarded' = FALSE
    /\ UNCHANGED <<tables, config, chain, trimmed, recorded, runtime>>

Next ==
    \/ \E b \in NextBlocks : \E failAt \in 0..(Len(b.txs) + 1) : RollForward(b, failAt)
    \/ \E p \in Points : RollBackward(p)
    \/ TrimVolatile

Spec == Init /\ [][Next]_vars

\* the engine across restarts of the process, with a UtxoIndexer without filter
InitIds == Init /\ addresses = None /\ assets = None

NextIds ==
    \/ \E b \in NextBlocks : Len(b.txs) <= 1 /\ RollForward(b, 0)
    \/ \E p \in Points : RollBackward(p)
    \/ TrimVolatile
    \/ \E ids \in IndexerLists : Reopen(ids)

SpecIds == InitIds /\ [][NextIds]_vars

\* the engine called with any block and any point, whatever the tables hold:
\* a block for a slot that has an entry, a point at u64::MAX, and clear
AnyBlocks == {b \in Blocks : b.slot \in {1, MaxSlot} /\ b.txs \in {<<>>, <<1>>}}

AnyPoints == Points \cup {Specific(U64_MAX, <<U64_MAX, <<>>>>)}

\* Db::roll_forward called with any block
AnyRollForward(block) ==
    /\ RollForwardCall(block, 0)
    /\ rt' = [phase |-> "forward", pre |-> <<>>,
              point |-> Specific(block.slot, BlockHash(block))]
    /\ UNCHANGED runtime

\* Db::roll_backward called with `point`; rt keeps the tables before the call
AnyRollBackward(point, overflow_checks) ==
    /\ RollBackwardCall(point, overflow_checks)
    /\ rt' = [phase |-> "rollback", pre |-> Store, point |-> point]
    /\ UNCHANGED runtime

\* a call of Db::clear and what it leaves in the tables
ClearCall ==
    /\ ~hung
    /\ Install(clear(Store, live))
    /\ op' = "clear"
    /\ result' = "ok"
    /\ chain' = Empty
    /\ trimmed' = {}
    /\ recorded' = None
    /\ discarded' = FALSE
    /\ rt' = [phase |-> "clear", pre |-> Store, point |-> Origin]
    /\ UNCHANGED <<config, live, hung>>

\* Db::clear called on its own
Clear ==
    /\ ClearCall
    /\ UNCHANGED runtime

NextAny ==
    \/ \E b \in AnyBlocks : AnyRollForward(b)
    \/ \E p \in AnyPoints : \E oc \in BOOLEAN : AnyRollBackward(p, oc)
    \/ TrimVolatile
    \/ Clear

SpecAny == InitIds /\ [][NextAny]_vars

\* the node sends again the block the engine applied last: Db::roll_forward
\* is called a second time with the same block; rt keeps the tables before
\* the second call
ReplayForward ==
    /\ op = "roll_forward"
    /\ result = "ok"
    /\ rt.phase = "forward"
    /\ slots # Empty
    /\ \E s \in {MaxOf(DOMAIN slots)} :
          RollForwardCall([slot |-> s, txs |-> chain[s].txs], 0)
    /\ rt' = [phase |-> "replay", pre |-> Store, point |-> tip(Store)]
    /\ UNCHANGED runtime

NextReplay ==
    \/ \E b \in NextBlocks : RollForward(b, 0)
    \/ \E p \in Points : RollBackward(p)
    \/ ReplayForward

SpecReplay == Init /\ [][NextReplay]_vars

(* --------------------------- the calls of a run ----------------------- *)

\* the indexer lists of the logged runs
CallLists == {<<"aux", "utxo">>, <<"all", "aux", "utxo">>}

\* the blocks of the logged runs: a later slot than every stored one; no tx,
\* a tx that spends a genesis output, an invalid tx, or two txs that spend
\* outputs of tx 1 (the engine does not validate them: the block may come
\* without tx 1 before it)
CallBlocks ==
    {b \in Blocks :
        /\ b.slot \in {1, 2, MaxSlot}
        /\ b.txs \in {<<>>, <<1>>, <<3>>, <<2, 3>>}
        /\ \A s \in DOMAIN slots : s < b.slot}

\* Db::roll_forward, with the hooks it invoked kept in `calls`
LoggedRollForward(block) ==
    /\ RollForwardCall(block, 0)
    /\ \E r \in {roll_forward(Store, live, block, 0)} : calls' = r.calls
    /\ rt' = [phase |-> "forward", pre |-> Store,
              point |-> Specific(block.slot, BlockHash(block))]
    /\ UNCHANGED <<lockv, pipev, db_names, opened, envv>>

\* Db::roll_backward, with the hooks it invoked and the steps of its write
\* transactions kept in `calls`
LoggedRollBackward(point) ==
    /\ RollBackwardCall(point, FALSE)
    /\ \E r \in {roll_backward(Store, live, point, FALSE)} : calls' = r.calls
    /\ rt' = [phase |-> "rollback", pre |-> Store, point |-> point]
    /\ UNCHANGED <<lockv, pipev, db_names, opened, envv>>

NextCalls ==
    \/ \E b \in CallBlocks : LoggedRollForward(b)
    \/ \E p \in Points : LoggedRollBackward(p)
    \/ \E ids \in CallLists : Reopen(ids)

SpecCalls == InitIds /\ [][NextCalls]_vars

(* ------------------------ Env: sub-database names --------------------- *)

\* Env::create_database and Env::create_database_with_flags: the name check
\* on db_names, the push, then the heed call (`fails`: the heed call returns
\* an error, the name stays pushed)
create_database(names, name, fails) ==
    IF name \in names THEN [db_names |-> names, out |-> "exists"]
    ELSE [db_names |-> names \cup {name},
          out |-> IF fails THEN "err" ELSE "ok"]

\* a caller creates one table through the Env and commits
CreateDatabase(name, fails) ==
    /\ \E r \in {create_database(db_names, name, fails)} :
          /\ db_names' = r.db_names
          /\ opened' = IF r.out = "ok"
                        THEN [opened EXCEPT ![name] = @ + 1] ELSE opened
          /\ result' = r.out
    /\ op' = "create_database"
    /\ UNCHANGED <<tables, config, live, hung, chain, trimmed, rt, recorded,
                   discarded, lockv, pipev, calls, envv>>

\* the same through create_database_with_flags
CreateDatabaseWithFlags(name, fails) ==
    /\ \E r \in {create_database(db_names, name, fails)} :
          /\ db_names' = r.db_names
          /\ opened' = IF r.out = "ok"
                        THEN [opened EXCEPT ![name] = @ + 1] ELSE opened
          /\ result' = r.out
    /\ op' = "create_database_with_flags"
    /\ UNCHANGED <<tables, config, live, hung, chain, trimmed, rt, recorded,
                   discarded, lockv, pipev, calls, envv>>

\* UtxoIndexer::new: utxos, by_address, by_asset in one write transaction,
\* each call followed by `?`
RECURSIVE CreateAll(_, _, _)
CreateAll(names, todo, failAt) ==
    IF todo = <<>> THEN [db_names |-> names, out |-> "ok"]
    ELSE LET r == create_database(names, Head(todo), failAt = 1)
         IN IF r.out # "ok" THEN r
            ELSE CreateAll(r.db_names, Tail(todo), failAt - 1)

\* a further UtxoIndexer is built on a clone of the Env; when a call fails
\* the write transaction is dropped and no table of it is opened
UtxoIndexerNew(failAt) ==
    /\ \E r \in {CreateAll(db_names, <<"utxos", "by_address", "by_asset">>, failAt)} :
          /\ db_names' = r.db_names
          /\ opened' = IF r.out = "ok"
                        THEN [n \in TableNames |->
                                IF n \in UtxoTables THEN opened[n] + 1
                                ELSE opened[n]]
                        ELSE opened
          /\ result' = r.out
    /\ op' = "UtxoIndexer::new"
    /\ UNCHANGED <<tables, config, live, hung, chain, trimmed, rt, recorded,
                   discarded, lockv, pipev, calls, envv>>

NextEnv ==
    \/ \E n \in TableNames : \E fails \in BOOLEAN : CreateDatabase(n, fails)
    \/ \E n \in TableNames : \E fails \in BOOLEAN : CreateDatabaseWithFlags(n, fails)
    \/ \E failAt \in 0..3 : UtxoIndexerNew(failAt)

SpecEnv == InitIds /\ [][NextEnv]_vars

(* ----------------------------- Env::resize ---------------------------- *)

\* the greatest map size of a run, in units
MaxMap == 16

\* page sizes of a system, in units
PageSizes == {1, 2, 4}

\* Env::resize: free_size = current_size - page_size * info.last_page_number
free_size(current_size, page, last_page) == current_size - page * last_page

\* Env::resize: free_size < minimum_free_space || free_size > minimum_free_space * 2
NeedsResize(free) ==
    free < minimum_free_space \/ free > minimum_free_space * 2

\* Env::resize: new_size = current_size + minimum_free_space, then
\* new_size + new_size % self.page_size
new_size(current_size, page) ==
    (current_size + minimum_free_space) +
    ((current_size + minimum_free_space) % page)

\* Env::resize called by one thread, no other thread running.  `readers`:
\* another process holds a read transaction on the environment.
EnvResize(readers) ==
    /\ map_size + minimum_free_space + page_size <= MaxMap
    /\ IF ~NeedsResize(free_size(map_size, page_size, last_page_number))
       THEN /\ result' = "ok"
            /\ UNCHANGED map_size
       ELSE IF readers
       THEN /\ result' = "err"
            /\ UNCHANGED map_size
       ELSE /\ result' = "ok"
            /\ map_size' = new_size(map_size, page_size)
    /\ op' = "resize"
    /\ rt' = [phase |-> "resize", pre |-> map_size, point |-> Origin]
    /\ UNCHANGED <<tables, config, live, hung, chain, trimmed, recorded,
                   discarded, lockv, pipev, calls, db_names, opened,
                   page_size, last_page_number, snapshot>>

\* committed writes leave the last used page at n (within the map)
WritePages(n) ==
    /\ n # last_page_number
    /\ page_size * n <= map_size
    /\ last_page_number' = n
    /\ op' = "write"
    /\ result' = "ok"
    /\ rt' = NoRt
    /\ UNCHANGED <<tables, config, live, hung, chain, trimmed, recorded,
                   discarded, lockv, pipev, calls, db_names, opened,
                   map_size, page_size, snapshot>>

\* an environment of any size, on a system of any of the page sizes
InitResize ==
    /\ NewDb /\ addresses = None /\ assets = None
    /\ map_size \in 0..MaxMap
    /\ page_size \in PageSizes
    /\ last_page_number \in 0..MaxMap
    /\ page_size * last_page_number <= map_size
    /\ snapshot = "idle"

NextResize ==
    \/ \E readers \in BOOLEAN : EnvResize(readers)
    \/ \E n \in 0..MaxMap : WritePages(n)

SpecResize == InitResize /\ [][NextResize]_vars

(* ------------------- transactions and the resize lock ----------------- *)

\* what the steps of a thread on the lock leave alone
dbv == <<tables, config, live, hung, op, result, chain, trimmed, rt,
         recorded, discarded>>

LockBlocks == {b \in NextBlocks : b.slot <= 2 /\ b.txs \in {<<>>, <<1>>}}
LockPoints == {p \in Points : p = Origin \/ p[2] <= 1}
Calls ==
    {[op |-> "roll_forward", arg |-> b] : b \in LockBlocks} \cup
    {[op |-> "roll_backward", arg |-> p] : p \in LockPoints} \cup
    {[op |-> "trim_volatile", arg |-> Origin]}

\* the calls that run in one write transaction: roll_forward, and clear
\* (roll_backward to Origin); the others hold a read transaction to their end
InWriteTxn(c) ==
    c.op = "roll_forward" \/ (c.op = "roll_backward" /\ c.arg = Origin)

\* a resize_lock.write() that does not wait for the shared guards
CanLockIgnoringGuards(g, e) == e = None

\* RwLock::write: no thread holds the lock, shared or exclusive
CanLockExclusive(g, e) == e = None /\ \A t \in Threads : g[t] = 0

\* RwLock::read: no thread holds the lock exclusively
CanLockShared(e) == e = None

\* the writer takes the next event and calls the Db
WriterCall(c) ==
    /\ pc = "idle" /\ ~hung
    /\ call' = c
    /\ pc' = "begin"
    /\ UNCHANGED <<dbv, guards, excl, txns, rpc>>

\* Env::write_txn / Env::read_txn: let _guard = self.resize_lock.read()
WriterGuard ==
    /\ pc = "begin"
    /\ CanLockShared(excl)
    /\ guards' = [guards EXCEPT !["writer"] = @ + 1]
    /\ pc' = "guarded"
    /\ UNCHANGED <<dbv, excl, txns, rpc, call>>

\* Env::write_txn / Env::read_txn: let txn = self.env.write_txn()
WriterTxn ==
    /\ pc = "guarded"
    /\ txns' = [txns EXCEPT !["writer"] = @ + 1]
    /\ pc' = "body"
    /\ UNCHANGED <<dbv, guards, excl, rpc, call>>

\* the body of the call, to its commit or its early return.  A call in one
\* write transaction ends it here (commit, or drop on error); roll_forward on
\* an empty indexer_ids takes a second guard and blocks in env.write_txn().
\* The other calls begin and end their write transactions inside and keep
\* rtxn.
WriterBody ==
    /\ pc = "body"
    /\ \/ /\ call.op = "roll_forward"
          /\ RollForwardCall(call.arg, 0)
          /\ rt' = NoRt
       \/ /\ call.op = "roll_backward"
          /\ RollBackwardCall(call.arg, FALSE)
          /\ rt' = NoRt
       \/ /\ call.op = "trim_volatile"
          /\ TrimVolatileCall
    /\ IF hung'
       THEN /\ guards' = [guards EXCEPT !["writer"] = @ + 1]
            /\ pc' = "hung"
            /\ UNCHANGED txns
       ELSE IF InWriteTxn(call)
       THEN /\ txns' = [txns EXCEPT !["writer"] = 0]
            /\ pc' = IF result' = "ok" THEN "committed" ELSE "failed"
            /\ UNCHANGED guards
       ELSE /\ pc' = IF call.op = "roll_backward" /\ result' = "ok"
                     THEN "resize" ELSE "return"
            /\ UNCHANGED <<guards, txns>>
    /\ UNCHANGED <<excl, rpc, call>>

\* the guard of the finished write transaction is dropped
WriterUnguard ==
    /\ pc \in {"committed", "failed"}
    /\ guards' = [guards EXCEPT !["writer"] = 0]
    /\ pc' = IF pc = "committed" THEN "resize" ELSE "idle"
    /\ UNCHANGED <<dbv, excl, txns, rpc, call>>

\* Env::resize: free_size < minimum_free_space || free_size > 2 * minimum
WriterDecide(need) ==
    /\ pc = "resize"
    /\ need => map_size + minimum_free_space <= MaxMap
    /\ pc' = IF need THEN "lock_wait" ELSE "return"
    /\ UNCHANGED <<dbv, guards, excl, txns, rpc, call>>

\* Env::resize: let lock = self.resize_lock.write()
WriterLock ==
    /\ pc = "lock_wait"
    /\ CanLockExclusive(guards, excl)
    /\ excl' = Some("writer")
    /\ pc' = "clearing"
    /\ UNCHANGED <<dbv, guards, txns, rpc, call>>

\* RwLock::write may panic when the calling thread holds the lock: the writer
\* unwinds, and its transaction and guard are dropped
WriterLockPanic ==
    /\ pc = "lock_wait"
    /\ guards["writer"] > 0
    /\ pc' = "dead"
    /\ hung' = TRUE
    /\ result' = "panic"
    /\ txns' = [txns EXCEPT !["writer"] = 0]
    /\ guards' = [guards EXCEPT !["writer"] = 0]
    /\ UNCHANGED <<tables, config, live, op, chain, trimmed, rt, recorded,
                   discarded, excl, rpc, call>>

\* a check that returns the error with the exclusive lock still held
CheckKeepsLock(readers) ==
    /\ pc = "clearing"
    /\ snapshot = "copying" => readers
    /\ IF readers
       THEN /\ result' = "err"
            /\ pc' = "return"
            /\ UNCHANGED excl
       ELSE /\ pc' = "resizing"
            /\ UNCHANGED <<excl, result>>
    /\ UNCHANGED <<tables, config, live, hung, op, chain, trimmed, rt,
                   recorded, discarded, guards, txns, rpc, call>>

\* Env::resize: clear_stale_readers, then number_of_readers != 0 is
\* ActiveReadersOnResize and the lock is dropped by the return.  `readers`:
\* a read transaction is open on the environment, in another process or, in
\* this one, that of a snapshot being copied
WriterCheck(readers) ==
    /\ pc = "clearing"
    /\ snapshot = "copying" => readers
    /\ IF readers
       THEN /\ excl' = None
            /\ result' = "err"
            /\ pc' = "return"
       ELSE /\ pc' = "resizing"
            /\ UNCHANGED <<excl, result>>
    /\ UNCHANGED <<tables, config, live, hung, op, chain, trimmed, rt,
                   recorded, discarded, guards, txns, rpc, call>>

\* Env::resize: self.env.resize(new_size); drop(lock)
WriterResize ==
    /\ pc = "resizing"
    /\ map_size' = new_size(map_size, page_size)
    /\ excl' = None
    /\ pc' = "return"
    /\ UNCHANGED <<dbv, guards, txns, rpc, call>>

\* the call returns: rtxn, if the call holds one, is dropped, then its guard
WriterReturn ==
    /\ pc = "return"
    /\ txns' = [txns EXCEPT !["writer"] = 0]
    /\ guards' = [guards EXCEPT !["writer"] = 0]
    /\ pc' = "idle"
    /\ call' = NoCall
    /\ UNCHANGED <<dbv, excl, rpc>>

\* another thread reads (UtxoIndexer::utxos): Env::read_txn, then the drop of
\* the RoTxn: txn first, _guard second
ReaderStep ==
    /\ \/ /\ rpc = "idle" /\ CanLockShared(excl)
          /\ guards' = [guards EXCEPT !["reader"] = @ + 1]
          /\ rpc' = "guarded"
          /\ UNCHANGED txns
       \/ /\ rpc = "guarded"
          /\ txns' = [txns EXCEPT !["reader"] = @ + 1]
          /\ rpc' = "reading"
          /\ UNCHANGED guards
       \/ /\ rpc = "reading"
          /\ txns' = [txns EXCEPT !["reader"] = @ - 1]
          /\ rpc' = "ended"
          /\ UNCHANGED guards
       \/ /\ rpc = "ended"
          /\ guards' = [guards EXCEPT !["reader"] = @ - 1]
          /\ rpc' = "idle"
          /\ UNCHANGED txns
    /\ UNCHANGED <<dbv, excl, pc, call>>

\* another thread calls Env::snapshot: env.copy_to_file opens a read
\* transaction of the heed environment, copies, and ends it; resize_lock is
\* not taken
SnapshotStep ==
    /\ \/ snapshot = "idle" /\ snapshot' = "copying"
       \/ snapshot = "copying" /\ snapshot' = "idle"
    /\ UNCHANGED <<dbv, lockv, pipev, calls, db_names, opened, map_size,
                   page_size, last_page_number>>

NextLock ==
    \/ \E c \in Calls : WriterCall(c) /\ UNCHANGED <<pipev, extv>>
    \/ WriterGuard /\ UNCHANGED <<pipev, extv>>
    \/ WriterTxn /\ UNCHANGED <<pipev, extv>>
    \/ WriterBody /\ UNCHANGED <<pipev, extv>>
    \/ WriterUnguard /\ UNCHANGED <<pipev, extv>>
    \/ \E need \in BOOLEAN : WriterDecide(need) /\ UNCHANGED <<pipev, extv>>
    \/ WriterLock /\ UNCHANGED <<pipev, extv>>
    \/ WriterLockPanic /\ UNCHANGED <<pipev, extv>>
    \/ \E readers \in BOOLEAN : WriterCheck(readers) /\ UNCHANGED <<pipev, extv>>
    \/ WriterResize /\ UNCHANGED <<pipev, calls, db_names, opened, page_size,
                                   last_page_number, snapshot>>
    \/ WriterReturn /\ UNCHANGED <<pipev, extv>>
    \/ ReaderStep /\ UNCHANGED <<pipev, extv>>
    \/ SnapshotStep

SpecLock == InitIds /\ [][NextLock]_vars

(* ------------------------ the pipeline and the writer ----------------- *)

\* the capacity of the channel (BUFFER_SIZE = 5000 in the source)
BUFFER_SIZE == 2
\* how many headers are gathered for one block-fetch (200 in the source)
BLOCKFETCH_CONCURRENCY == 2
\* how many chain-sync responses a behaviour has
MaxResponses == 4
\* a block within this many slots of the tip is at the tip (1000 in the source)
TipWindow == 1
\* the writer trims and persists at every such block number (10000 in the
\* source); the number of a block is its slot
TrimEvery == 2

\* the block of the node's chain at a slot
PipeBlock(s) == [slot |-> s, txs |-> IF s = 2 THEN <<1>> ELSE <<>>]
NoBlock == [slot |-> 0, txs |-> <<>>]
PipePoint(s) ==
    IF s = 0 THEN Specific(0, <<0, <<>>>>) ELSE Specific(s, BlockHash(PipeBlock(s)))

\* NextResponse::RollForward(header, tip) / RollBackward(point, tip) / Await,
\* and SyncEvent::RollForward(block, tip) / RollBackward(point)
RollForwardOf(b, t) ==
    [kind |-> "RollForward", block |-> b, point |-> Origin, tip |-> t]
RollBackwardOf(p) ==
    [kind |-> "RollBackward", block |-> NoBlock, point |-> p, tip |-> 0]
Await == [kind |-> "Await", block |-> NoBlock, point |-> Origin, tip |-> 0]

\* the slot the node's cursor for this client is at after the responses r
RECURSIVE NodePos(_)
NodePos(r) ==
    IF r = <<>> THEN 0
    ELSE LET x == r[Len(r)]
         IN IF x.kind = "RollForward" THEN x.block.slot
            ELSE IF x.kind = "RollBackward"
            THEN (IF x.point = Origin THEN 0 ELSE x.point[2])
            ELSE NodePos(SubSeq(r, 1, Len(r) - 1))

\* what the node can answer to the next request
Responses ==
    LET pos == NodePos(received)
    IN {RollForwardOf(PipeBlock(s), s) : s \in (pos + 1)..MaxSlot} \cup
       {RollForwardOf(PipeBlock(s), s + TipWindow) : s \in (pos + 1)..MaxSlot} \cup
       {RollBackwardOf(p) : p \in {Origin} \cup {PipePoint(s) : s \in 0..pos}} \cup
       {Await}

\* Sync::next: let is_at_tip = point == tip.0
is_at_tip(resp) == resp.kind = "RollForward" /\ resp.block.slot = resp.tip

\* the RollBackward sent before the blocks of the headers received earlier
AfterThenFlush(fetched, after) == after \o fetched

\* Sync::next: flush_pending_fetches().await, then the send of the response's
\* own event
FlushThen(fetched, after) == fetched \o after

\* blockfetch().fetch_range((start, end)) returning `count` blocks: the
\* blocks of the pending headers, fewer of them, or blocks beyond the last
Fetched(pending, count) ==
    [i \in 1..count |->
        IF i <= Len(pending) THEN pending[i].block
        ELSE PipeBlock(pending[Len(pending)].block.slot + (i - Len(pending)))]

\* a flush that sends whatever the fetch returned
CountAccepted(blocks, pending) == FALSE

\* flush_pending_fetches: blocks.len() != self.pending_fetches.len()
CountMismatch(blocks, pending) == Len(blocks) # Len(pending)

\* flush_pending_fetches: one RollForward per fetched block, with the tip of
\* the last pending header
FetchedEvents(blocks, last_tip) ==
    [i \in DOMAIN blocks |-> RollForwardOf(blocks[i], last_tip)]

\* a channel that accepts an event whatever it holds
AlwaysCapacity(q) == TRUE

\* mpsc::Sender::send completes when the channel holds fewer than BUFFER_SIZE
HasCapacity(q) == Len(q) < BUFFER_SIZE

\* the writer takes the event sent last
NewestEvent(q) == q[Len(q)]

\* mpsc::Receiver::recv: the event sent first
NextEvent(q) == Head(q)

\* a flush only when more than BLOCKFETCH_CONCURRENCY headers are pending
FlushWhenOver(resp, pending) ==
    \/ resp.kind # "RollForward"
    \/ Len(pending) > BLOCKFETCH_CONCURRENCY
    \/ is_at_tip(resp)

\* a flush that ignores the tip
FlushWhenFull(resp, pending) ==
    \/ resp.kind # "RollForward"
    \/ Len(pending) >= BLOCKFETCH_CONCURRENCY

\* a flush that only headers trigger
FlushOnHeaders(resp, pending) ==
    /\ resp.kind = "RollForward"
    /\ Len(pending) >= BLOCKFETCH_CONCURRENCY \/ is_at_tip(resp)

\* Sync::next: the responses after which flush_pending_fetches is called,
\* `pending` being pending_fetches after the push of a header
ShouldFlush(resp, pending) ==
    \/ resp.kind # "RollForward"
    \/ Len(pending) >= BLOCKFETCH_CONCURRENCY
    \/ is_at_tip(resp)

\* flush_pending_fetches: fetch_range((start, end)) with the first and the
\* last of pending_fetches; points: pending_fetches.len() at that time
FetchRange(pending) ==
    [start |-> pending[1].block, end |-> pending[Len(pending)].block,
     points |-> Len(pending)]

\* Sync::next up to its first send: the response is received, a header is
\* pushed, and the pending headers are fetched when the code flushes.
\* count: the number of blocks the fetch returns (-1: the fetch fails)
SyncNext(resp, count) ==
    /\ spc = "next"
    /\ Len(received) < MaxResponses \/ resp.kind = "Await"
    /\ received' = IF resp.kind = "Await" /\ received # <<>>
                       /\ received[Len(received)].kind = "Await"
                    THEN received ELSE Append(received, resp)
    /\ LET pending == IF resp.kind = "RollForward"
                      THEN Append(pending_fetches,
                                  [block |-> resp.block, tip |-> resp.tip])
                      ELSE pending_fetches
           flush == ShouldFlush(resp, pending)
           after == IF resp.kind = "RollBackward"
                    THEN <<RollBackwardOf(resp.point)>> ELSE <<>>
       IN IF ~flush
          THEN /\ pending_fetches' = pending
               /\ UNCHANGED <<tosend, spc>>
               /\ UNCHANGED <<mismatch, fetches>>
          ELSE IF pending = <<>>
          THEN /\ tosend' = FlushThen(<<>>, after)
               /\ pending_fetches' = <<>>
               /\ spc' = IF tosend' = <<>> THEN "next" ELSE "sending"
               /\ UNCHANGED <<mismatch, fetches>>
          ELSE IF count < 0
          THEN /\ pending_fetches' = pending
               /\ fetches' = Append(fetches, FetchRange(pending))
               /\ spc' = "failed"
               /\ UNCHANGED <<tosend, mismatch>>
          ELSE /\ mismatch' = (mismatch \/ count # Len(pending))
               /\ fetches' = Append(fetches, FetchRange(pending))
               /\ IF CountMismatch(Fetched(pending, count), pending)
                  THEN /\ pending_fetches' = pending
                       /\ spc' = "failed"
                       /\ UNCHANGED tosend
                  ELSE /\ tosend' = FlushThen(
                                       FetchedEvents(Fetched(pending, count),
                                                     pending[Len(pending)].tip),
                                       after)
                       /\ pending_fetches' =
                             IF tosend' = <<>> THEN <<>> ELSE pending
                       /\ spc' = IF tosend' = <<>> THEN "next" ELSE "sending"
    /\ UNCHANGED <<dbv, lockv, extv, intersect, queue, sent, applied, wtask,
                   shutdown, written, stop_result>>

\* a channel that stays open when its receiver is gone
NeverClosed(task) == FALSE

\* mpsc::Sender::send fails when the receiver was dropped: rx is owned by
\* the writer task and dropped when the task ends
ChannelClosed(task) == task # "running"

\* Writer::send(event).await inside Sync::next; pending_fetches is cleared
\* after the last block of a flush is sent
SyncSend ==
    /\ spc = "sending"
    /\ IF ChannelClosed(wtask)
       THEN /\ spc' = "failed"
            /\ UNCHANGED <<queue, sent, tosend, pending_fetches>>
       ELSE /\ HasCapacity(queue)
            /\ queue' = Append(queue, Head(tosend))
            /\ sent' = Append(sent, Head(tosend))
            /\ tosend' = Tail(tosend)
            /\ pending_fetches' =
                  IF Head(tosend).kind = "RollForward"
                     /\ (tosend' = <<>> \/ Head(tosend').kind # "RollForward")
                  THEN <<>> ELSE pending_fetches
            /\ spc' = IF tosend' = <<>> THEN "next" ELSE "sending"
    /\ UNCHANGED <<dbv, lockv, extv, intersect, mismatch, fetches, written, stop_result,
                   received, applied,
                   wtask, shutdown>>

\* Sync::stop after run() returned or was cancelled at an await: the
\* connection is aborted, tx is dropped and the shutdown signal is sent
SyncStop ==
    /\ spc \in {"next", "sending", "failed"}
    /\ spc' = "stopped"
    /\ shutdown' = TRUE
    /\ UNCHANGED <<dbv, lockv, extv, intersect, mismatch, fetches, written, stop_result,
                   received,
                   pending_fetches, tosend, queue, sent,
                   applied, wtask>>

\* a writer that trims and persists at the tip only
DueAtTipOnly(event) ==
    (IF event.tip > TipWindow THEN event.tip - TipWindow ELSE 0) < event.block.slot

\* the tip_slot.saturating_sub(1000) < block.slot() || number % 10000 == 0
\* of write_event
TrimDue(event) ==
    LET back == IF event.tip > TipWindow THEN event.tip - TipWindow ELSE 0
    IN back < event.block.slot \/ event.block.slot % TrimEvery = 0

\* a Db call of write_event and whether it returned Ok
DbCall(fn, ok) == [fn |-> fn, ok |-> ok]

\* what can fail in write_event besides the roll itself: the storage under
\* trim_volatile or under persist
WriterFailures == {"none", "trim_volatile", "persist"}

\* write_event after db.roll_forward(indexer, &block) returned r:
\* if at_tip || block.number() % 10000 == 0 { db.trim_volatile()?;
\* db.persist()?; }
AfterRollForward(event, r, fail) ==
    IF r.out # "ok"
    THEN [st |-> r.st, mid |-> r.st, out |-> r.out, end |-> r.out,
          dirty |-> r.dirty, calls |-> <<DbCall("roll_forward", FALSE)>>]
    ELSE IF ~TrimDue(event)
    THEN [st |-> r.st, mid |-> r.st, out |-> "ok", end |-> "ok",
          dirty |-> r.dirty, calls |-> <<DbCall("roll_forward", TRUE)>>]
    ELSE IF fail = "trim_volatile"
    THEN [st |-> r.st, mid |-> r.st, out |-> "ok", end |-> "err",
          dirty |-> r.dirty,
          calls |-> <<DbCall("roll_forward", TRUE),
                      DbCall("trim_volatile", FALSE)>>]
    ELSE [st |-> trim_volatile(r.st), mid |-> r.st, out |-> "ok",
          end |-> IF fail = "persist" THEN "err" ELSE "ok",
          dirty |-> r.dirty,
          calls |-> <<DbCall("roll_forward", TRUE),
                      DbCall("trim_volatile", TRUE),
                      DbCall("persist", fail # "persist")>>]

\* write_event after db.roll_backward(indexer, &point) returned r
AfterRollBackward(r) ==
    [st |-> r.st, mid |-> r.st, out |-> r.out, end |-> r.out,
     dirty |-> r.dirty, calls |-> <<DbCall("roll_backward", r.out = "ok")>>]

\* Writer::write_event: the Db calls made for an event and what they leave.
\* out: how the roll ended; end: how write_event ended
write_event(st, ids, event, fail) ==
    IF event.kind = "RollForward"
    THEN AfterRollForward(event, roll_forward(st, ids, event.block, 0), fail)
    ELSE AfterRollBackward(roll_backward(st, ids, event.point, FALSE))

\* the writer task takes an event from the channel and applies it; an error
\* ends the task
WriteEvent ==
    /\ wtask = "running" /\ ~hung
    /\ queue # <<>>
    /\ \E event \in {NextEvent(queue)} :
       \E fail \in WriterFailures :
       \E r \in {write_event(Store, live, event, fail)} :
          /\ Install(r.st)
          /\ queue' = Tail(queue)
          /\ written' = [event |-> event, calls |-> r.calls]
          /\ result' = IF r.end = "hang" THEN "none" ELSE r.end
          /\ hung' = (r.out \in {"hang", "panic"})
          /\ applied' = IF r.out = "ok" THEN Append(applied, event) ELSE applied
          /\ wtask' = IF r.end = "err" THEN "failed" ELSE wtask
          /\ discarded' = r.dirty
          /\ IF event.kind = "RollForward"
             THEN /\ op' = "roll_forward"
                  /\ chain' = IF r.out = "ok"
                              THEN Put(chain, event.block.slot,
                                       [txs |-> event.block.txs,
                                        kept |-> r.mid.volatile_block[
                                                     BlockHash(event.block)].txs])
                              ELSE chain
                  /\ trimmed' = IF r.out = "ok"
                                THEN (trimmed \ {BlockHash(event.block)}) \cup
                                     ((DOMAIN r.mid.volatile_block)
                                        \ (DOMAIN r.st.volatile_block))
                                ELSE trimmed
                  /\ UNCHANGED recorded
             ELSE /\ op' = "roll_backward"
                  /\ chain' = [s \in DOMAIN r.st.slots |-> chain[s]]
                  /\ trimmed' = trimmed \cap Range(r.st.slots)
                  /\ recorded' = IF event.point = Origin THEN None
                                 ELSE IF indexer_ids = {} THEN Some(live)
                                 ELSE recorded
    /\ rt' = NoRt
    /\ UNCHANGED <<config, live, lockv, extv, intersect, mismatch, fetches,
                   stop_result, received,
                   pending_fetches, tosend, spc,
                   sent, shutdown>>

\* the select! of the writer task takes the shutdown branch: the task returns
WriterShutdown ==
    /\ wtask = "running" /\ ~hung
    /\ shutdown
    /\ wtask' = "returned"
    /\ UNCHANGED <<dbv, lockv, extv, intersect, mismatch, fetches, written, stop_result,
                   received,
                   pending_fetches, tosend, spc, queue,
                   sent, applied, shutdown>>

\* a stop that waits for a task that returns Ok
EndedOk(task) == task = "returned"

\* self.task.await completes when the writer task has ended
TaskEnded(task) == task \in {"returned", "failed"}

\* the error write_event returned, named by the event and the Db call
\* that failed
ErrorOf(w) ==
    [out |-> "err", event |-> <<w.event>>, fn |-> w.calls[Len(w.calls)].fn]

\* Writer::stop returns: self.task.await? is the Result of the task, Ok(())
\* after a break of the loop and the error of write_event otherwise
StopReturn ==
    /\ spc = "stopped"
    /\ stop_result.out = "none"
    /\ TaskEnded(wtask)
    /\ stop_result' = IF wtask = "failed" THEN ErrorOf(written)
                       ELSE [out |-> "ok", event |-> <<>>, fn |-> ""]
    /\ UNCHANGED <<dbv, lockv, extv, intersect, mismatch, fetches, written,
                   received, pending_fetches, tosend, spc, queue, sent,
                   applied, wtask, shutdown>>

NextPipe ==
    \/ \E resp \in Responses, count \in (-1)..(BLOCKFETCH_CONCURRENCY + 1) :
          SyncNext(resp, count)
    \/ SyncSend
    \/ SyncStop
    \/ WriteEvent
    \/ WriterShutdown
    \/ StopReturn

SpecPipe == InitIds /\ [][NextPipe]_vars

\* a node whose chain only grows by the next slot and that rolls back to
\* the first point only
RunResponses ==
    {r \in Responses :
        /\ r.kind = "RollForward" => r.block.slot = NodePos(received) + 1
        /\ r.kind = "RollBackward" => r.point = PipePoint(0)}

\* the node answers every request of chain-sync; a block-fetch returns the
\* blocks asked for or fails
NodeAnswers ==
    \E resp \in RunResponses, count \in {-1, Len(pending_fetches),
                                          Len(pending_fetches) + 1} :
       SyncNext(resp, count)

\* the steps in which the writer task takes an event from the channel, by
\* what they do to the channel and the task: the steps of WriteEvent, and
\* enabled when WriteEvent is
TakesEvent ==
    /\ wtask = "running" /\ ~hung
    /\ queue # <<>>
    /\ queue' = Tail(queue)
    /\ wtask' \in {"running", "failed"}

\* the writer task is polled while it can take a step of its loop
WriterRuns == TakesEvent \/ WriterShutdown

\* the pipeline under a runtime that polls every task that is ready and a
\* node that keeps answering; the run may be cancelled at any time or never
NextRun ==
    \/ NodeAnswers
    \/ SyncSend
    \/ SyncStop
    \/ WriteEvent
    \/ WriterShutdown
    \/ StopReturn

SpecPipeFair ==
    /\ InitIds /\ [][NextRun]_vars
    /\ WF_vars(NodeAnswers)
    /\ WF_vars(SyncSend)
    /\ WF_<<queue, wtask>>(WriterRuns)
    /\ WF_vars(StopReturn)

(* ------------------------------ Sync::new ----------------------------- *)

\* how many chain-sync responses are followed after a start
StartResponses == 2

\* Sync::new on the stored tables: the tip is read, intersect_origin or
\* find_intersect(vec![tip]) is awaited and its Ok value is dropped.
\* `found`: the node answers IntersectFound.  intersect_origin turns
\* IntersectNotFound into an error, find_intersect returns it as Ok((None, tip)).
SyncNew(found) ==
    /\ ~hung
    /\ received = <<>>
    /\ \E t \in {tip(Store)} :
          /\ intersect' = [request |-> t, found |-> found]
          /\ spc' = IF t = Origin /\ ~found THEN "failed" ELSE "next"
    /\ UNCHANGED <<dbv, lockv, extv, received, pending_fetches, tosend, queue,
                   sent, applied, wtask, shutdown, mismatch, fetches, written,
                   stop_result>>

\* the tables are written by earlier runs of the process; then Sync::new and
\* the first calls of Sync::next
NextStart ==
    \/ \E b \in NextBlocks :
          b.txs = <<>> /\ received = <<>> /\ RollForward(b, 0)
    \/ \E p \in Points : received = <<>> /\ RollBackward(p)
    \/ \E found \in BOOLEAN : SyncNew(found)
    \/ \E resp \in Responses, count \in 0..BLOCKFETCH_CONCURRENCY :
          Len(received) < StartResponses /\ SyncNext(resp, count)
    \/ SyncSend

SpecStart == InitIds /\ [][NextStart]_vars

(* ------------------------------ properties ---------------------------- *)

\* the slots of the newest max_rollback_blocks entries of slots
Newest == {s \in DOMAIN slots :
             Cardinality({k \in DOMAIN slots : k > s}) < max_rollback_blocks}

C4_TipEquality ==
    tip(Store) = IF DOMAIN slots = {} THEN Origin
                 ELSE Specific(MaxOf(DOMAIN slots), slots[MaxOf(DOMAIN slots)])

\* slots holds several entries and the tip is the last of them
C4_Witness ==
    /\ Cardinality(DOMAIN slots) >= 2
    /\ tip(Store)[2] = MaxSlot

\* the tables as one value after a step
StoreAfter ==
    [slots |-> slots', volatile_block |-> volatile_block',
     volatile_tx |-> volatile_tx', indexer_ids |-> indexer_ids',
     utxos |-> utxos', by_address |-> by_address', by_asset |-> by_asset']

C2_RoundTripSpine ==
    (rt.phase = "back" /\ result = "ok") =>
        /\ slots = rt.pre.slots
        /\ volatile_block = rt.pre.volatile_block
        /\ volatile_tx = rt.pre.volatile_tx

\* C3: round trip of the UtxoIndexer.  With a UtxoIndexer in the list, the
\* roll_backward(tip point of S) that follows roll_forward(B) succeeds and
\* leaves utxos, by_address and by_asset exactly as they were in S.
C3_RoundTripIndexer ==
    (rt.phase = "back" /\ "utxo" \in Range(live)) =>
        /\ result = "ok"
        /\ utxos = rt.pre.utxos
        /\ by_address = rt.pre.by_address
        /\ by_asset = rt.pre.by_asset

\* the filter F of the UtxoIndexer as configured: the address is one of the
\* configured addresses, and an asset matches a configured AssetId
SatisfiesF(output) ==
    /\ addresses # None => output.address \in Range(addresses[1])
    /\ assets # None =>
         \E id \in Range(assets[1]) : \E a \in Range(output.assets) :
            id.policy = a.policy /\ (id.name = None \/ id.name = Some(a.name))

OutputAt(pointer) == TxOf(pointer[1]).outputs[pointer[2] + 1]

\* C7: filter soundness.  The pointers in utxos are the currently unspent
\* outputs produced by valid transactions of the chain that satisfy F.
C7_FilterSoundness ==
    DOMAIN utxos =
        {p \in LedgerAfter(Genesis, ChainTxs(chain)) \ Genesis :
            SatisfiesF(OutputAt(p))}

\* C8: once a list L is recorded in indexer_ids, every roll_forward and
\* roll_backward call made with a live list other than L (in membership or in
\* order) fails and changes no table.
C8_MismatchRejected ==
    [][(/\ op' \in {"roll_forward", "roll_backward"}
        /\ recorded # None
        /\ live # recorded[1]) =>
          (result' = "err" /\ UNCHANGED tables)
    ]_vars

\* C9: after the list L has been recorded, indexer_ids read back is L, in
\* order, for every L.
C9_RecordedReadBack ==
    recorded # None => iter(indexer_ids) = recorded[1]

\* C10: a roll_forward that returns an error raised while the block is
\* processed leaves every table as it was before the call.
C10_ForwardAtomic ==
    [][(op' = "roll_forward" /\ result' = "err") => UNCHANGED tables]_vars

\* roll_forward has failed after writes of earlier txs of the block had been
\* made in its transaction
C10_Witness ==
    /\ op = "roll_forward"
    /\ result = "err"
    /\ discarded

\* C17: roll_backward(Specific(s, h)) with s at or above the tip slot changes
\* no table, for every u64 value of s, u64::MAX included (recording the ids in
\* an empty indexer_ids on first run is left aside).
C17_PastTipNoOp ==
    (/\ rt.phase = "rollback"
     /\ rt.point # Origin
     /\ (tip(rt.pre) = Origin \/ rt.point[2] >= tip(rt.pre)[2])) =>
        /\ slots = rt.pre.slots
        /\ volatile_block = rt.pre.volatile_block
        /\ volatile_tx = rt.pre.volatile_tx
        /\ utxos = rt.pre.utxos
        /\ by_address = rt.pre.by_address
        /\ by_asset = rt.pre.by_asset
        /\ (rt.pre.indexer_ids # {} => indexer_ids = rt.pre.indexer_ids)

\* C18: clear, and likewise roll_backward(Origin), empties slots,
\* volatile_block, volatile_tx, indexer_ids and the tables of every indexer;
\* afterwards tip() is Origin, and both calls leave the same tables.
C18_ClearEmptiesAll ==
    ((rt.phase = "rollback" /\ rt.point = Origin) \/ rt.phase = "clear") =>
        /\ result = "ok"
        /\ slots = Empty /\ volatile_block = Empty /\ volatile_tx = Empty
        /\ indexer_ids = {}
        /\ utxos = Empty /\ by_address = {} /\ by_asset = {}
        /\ tip(Store) = Origin
        /\ Store = clear(rt.pre, live)
        /\ Store = roll_backward(rt.pre, live, Origin, TRUE).st

\* roll_backward(Origin) has returned on tables that held blocks, txs,
\* recorded ids and utxos
C18_Witness ==
    /\ rt.phase = "rollback" /\ rt.point = Origin
    /\ op = "roll_backward" /\ result = "ok"
    /\ Cardinality(DOMAIN rt.pre.slots) >= 2
    /\ rt.pre.volatile_tx # Empty
    /\ rt.pre.indexer_ids # {}
    /\ rt.pre.utxos # Empty

\* C19: for every tx the engine processed, spent() is inputs when valid and
\* collateral when not, and unspent() is outputs when valid and the
\* collateral_return output, if present, when not.
C19_SpentUnspent ==
    \A h \in Range(ChainTxs(chain)) :
        LET tx == TxOf(h)
        IN /\ spent(tx) = IF tx.valid THEN tx.inputs ELSE tx.collateral
           /\ unspent(tx) = IF tx.valid THEN tx.outputs ELSE tx.collateral_return

\* C20: every volatile_block record is referenced by exactly one slots entry,
\* also after roll_forward is called for a slot that already has an entry.
C20_BlockRecordsReferenced ==
    \A h \in DOMAIN volatile_block :
        Cardinality({s \in DOMAIN slots : slots[s] = h}) = 1

\* C15: no resize of the memory map takes place while a transaction got
\* through Env::read_txn or Env::write_txn is live: a thread with a live
\* transaction holds a shared guard, and the resize holds the exclusive side
\* through reader clearing, reader check and resizing.
C15_ResizeExcludesTxns ==
    /\ \A t \in Threads : txns[t] > 0 => guards[t] > 0
    /\ excl # None => \A t \in Threads : guards[t] = 0
    /\ pc \in {"clearing", "resizing"} =>
         /\ excl = Some("writer")
         /\ \A t \in Threads : txns[t] = 0

\* the memory map is being resized while another thread waits to read
C15_Witness ==
    /\ pc = "resizing"
    /\ excl = Some("writer")
    /\ rpc = "idle"
    /\ slots # Empty

\* C16: a call whose post-commit check decides to resize never requests the
\* exclusive resize lock while it holds a transaction (a shared guard) of its
\* own, so that it returns once the other threads' transactions end.
C16_ResizeWithoutOwnGuard ==
    pc = "lock_wait" => (guards["writer"] = 0 /\ txns["writer"] = 0)

\* the events a response sequence asks for: one per header, one per rollback
EventKey(x) == <<x.kind, x.block, x.point>>
Keys(s) == [i \in DOMAIN s |-> EventKey(s[i])]
Expected(r) == Keys(SelectSeq(r, LAMBDA x : x.kind # "Await"))
IsPrefix(a, b) == Len(a) <= Len(b) /\ a = SubSeq(b, 1, Len(a))

\* C11: while the writer runs without error, the roll_forward / roll_backward
\* calls it has applied are the events Sync sent on the channel, in the same
\* order and each once: what was sent is what was applied followed by what
\* is still queued.
C11_AppliedInOrder ==
    /\ IsPrefix(applied, sent)
    /\ (wtask = "running" /\ ~hung) => sent = applied \o queue

\* three events applied, a rollback among them, and one more queued
C11_Witness ==
    /\ Len(applied) >= 3
    /\ \E i \in DOMAIN applied : applied[i].kind = "RollBackward"
    /\ \E i \in DOMAIN applied : applied[i].kind = "RollForward"
    /\ queue # <<>>
    /\ wtask = "running"

\* C12: the pipeline sends one RollForward per received header, in the order
\* of the headers, and each RollBackward after the RollForward of every
\* header received before it and before that of any header received later:
\* the events sent, then those still to send, are the received headers and
\* rollbacks in their order.
C12_PipelineOrder ==
    /\ IsPrefix(Keys(sent), Expected(received))
    /\ spc = "sending" => Keys(sent \o tosend) = Expected(received)
    /\ spc = "next" =>
          Keys(sent) \o Keys([i \in DOMAIN pending_fetches |->
                                RollForwardOf(pending_fetches[i].block, 0)])
            = Expected(received)
    /\ (spc = "next" /\ received # <<>>
           /\ received[Len(received)].kind # "RollForward") =>
          Keys(sent) = Expected(received)

\* two headers gathered, then a rollback: all three events sent in that order
C12_Witness ==
    /\ Len(sent) >= 3
    /\ sent[Len(sent)].kind = "RollBackward"
    /\ sent[Len(sent) - 1].kind = "RollForward"
    /\ sent[Len(sent) - 2].kind = "RollForward"
    /\ sent[Len(sent) - 1].tip # sent[Len(sent) - 1].block.slot
    /\ spc = "next"

\* C13: when Sync::stop is called, every event already accepted into the
\* channel is applied to the database before the writer task returns.
C13_StopDrains ==
    (shutdown /\ wtask = "returned") => (queue = <<>> /\ applied = sent)

\* C14: the channel never holds more than BUFFER_SIZE events, and while a
\* send is blocked on a full channel the pipeline issues no further
\* chain-sync request and no further block-fetch.
C14_Backpressure ==
    /\ [](Len(queue) <= BUFFER_SIZE)
    /\ [][(spc = "sending" /\ Len(queue) >= BUFFER_SIZE /\ wtask = "running") =>
            (received' = received /\ sent' = sent /\ tosend' = tosend)]_vars

\* a send is blocked on a full channel
C14_Witness ==
    /\ spc = "sending"
    /\ Len(queue) = BUFFER_SIZE
    /\ wtask = "running"
    /\ tosend # <<>>

\* C30: a roll_forward call on a database whose indexer_ids table is empty
\* records the live ids, applies the block and returns; it never begins a
\* second write transaction while its own is open (which would block it for
\* ever).
C30_FreshForwardReturns ==
    op = "roll_forward" => (~hung /\ result \in {"ok", "err"})

\* C23: the slot of each newly written slots entry is greater than every
\* slot already present, so after each successful roll_forward(B) tip() is
\* Specific(B.slot, B.hash).
C23_TipIsNewBlock ==
    (rt.phase = "forward" /\ op = "roll_forward" /\ result = "ok") =>
        tip(Store) = rt.point

\* the entries of a slots table at or below a slot, and above it
UpTo(tbl, s) == [x \in {y \in DOMAIN tbl : y <= s} |-> tbl[x]]
Above(tbl, s) == {x \in DOMAIN tbl : x > s}
Without(tbl, keys) == [k \in (DOMAIN tbl) \ keys |-> tbl[k]]

MissingAbove(st, s) ==
    {f \in Above(st.slots, s) :
        \/ ~Has(st.volatile_block, st.slots[f])
        \/ \E h \in Range(st.volatile_block[st.slots[f]].txs) :
              ~Has(st.volatile_tx, h)}

\* C29: a roll_backward (to a slot below u64::MAX) that has to undo a slot
\* whose volatile_block record or volatile_tx record is missing returns an
\* error: the entry of the slot where it stopped and all older entries
\* remain, every newer slot is removed with its record, and the tables are
\* those a rollback to the slot where it stopped leaves (nothing of that
\* slot's undo is committed).
C29_MissingRecordIsError ==
    (/\ rt.phase = "rollback" /\ rt.point # Origin
     /\ rt.point[2] < U64_MAX
     /\ MissingAbove(rt.pre, rt.point[2]) # {}) =>
        /\ result = "err"
        /\ slots # Empty
        /\ LET g == MaxOf(DOMAIN slots)
               r == roll_backward(rt.pre, live, Specific(g, rt.pre.slots[g]), FALSE)
           IN /\ g >= MaxOf(MissingAbove(rt.pre, rt.point[2]))
              /\ slots = UpTo(rt.pre.slots, g)
              /\ volatile_block =
                    Without(rt.pre.volatile_block,
                            {rt.pre.slots[x] : x \in Above(rt.pre.slots, g)})
              /\ r.out = "ok"
              /\ Store = r.st

\* a rollback removed the newest slot and stopped at an older one whose
\* block had been trimmed
C29_Witness ==
    /\ rt.phase = "rollback" /\ rt.point # Origin /\ result = "err"
    /\ op = "roll_backward"
    /\ MissingAbove(rt.pre, rt.point[2]) # {}
    /\ DOMAIN slots # DOMAIN rt.pre.slots
    /\ slots # Empty

\* C24: when a block-fetch returns a number of blocks different from the
\* number of pending headers, the flush fails the run and no RollForward
\* event of that batch is sent: the events sent end before the batch.
C24_MismatchSendsNothing ==
    mismatch =>
        /\ spc \in {"failed", "stopped"}
        /\ tosend = <<>>
        /\ pending_fetches # <<>>
        /\ IsPrefix(Keys(sent) \o
                      Keys([i \in DOMAIN pending_fetches |->
                              RollForwardOf(pending_fetches[i].block, 0)]),
                    Expected(received))

\* a fetch for two pending headers returned another number of blocks, after
\* an earlier batch had been sent
C24_Witness ==
    /\ mismatch
    /\ spc = "failed"
    /\ Len(pending_fetches) >= 2
    /\ sent # <<>>

\* C22: calling roll_forward a second time with the block it has just applied
\* leaves slots, volatile_block and volatile_tx as the first call left them
C22_ReplayIdentical ==
    (rt.phase = "replay" /\ result = "ok") =>
        /\ slots = rt.pre.slots
        /\ volatile_block = rt.pre.volatile_block
        /\ volatile_tx = rt.pre.volatile_tx

\* C21: no name is opened twice on the environment: a create call for a name
\* that is open, by the engine or by an indexer, returns DatabaseExists
C21_NoSharedName == \A n \in TableNames : opened[n] <= 1

\* C25: a header is requested only after the node has confirmed the
\* intersection that Sync::new asked for
C25_IntersectBeforeFetch == received # <<>> => intersect.found

\* the sequences of a sequence, one after the other
RECURSIVE Flatten(_)
Flatten(ss) == IF ss = <<>> THEN <<>> ELSE Head(ss) \o Flatten(Tail(ss))

\* hook, indexer and argument of the logged calls
CallKeys(log) == [i \in DOMAIN log |-> <<log[i].hook, log[i].id, log[i].arg>>]

\* one call of `hook` per indexer of ids, in list order
PerIndexer(hook, ids, arg) == [j \in DOMAIN ids |-> <<hook, ids[j], arg>>]

\* the hooks of a block with the txs `txs`: per tx every insert_tx, then per
\* datum of the tx every insert_datum
InsertOrder(ids, txs) ==
    Flatten([i \in DOMAIN txs |->
        PerIndexer("insert_tx", ids, txs[i]) \o
        Flatten([k \in DOMAIN Datums(txs[i]) |->
                    PerIndexer("insert_datum", ids, Datums(txs[i])[k])])])

\* some indexer answered true to `hook` for `arg`
Accepted(log, hook, arg) ==
    \E i \in DOMAIN log :
        log[i].hook = hook /\ log[i].arg = arg /\ log[i].ret

\* C26: a successful roll_forward invokes, for every tx of the block, the
\* insert_tx of every indexer once and in list order, whatever the earlier
\* ones returned; the tx is in volatile_tx and in the txs of the block record
\* iff one of them returned true; likewise insert_datum per datum and the
\* datums of the block record
C26_EveryIndexerInvoked ==
    (rt.phase = "forward" /\ op = "roll_forward" /\ result = "ok") =>
        LET txs == rt.point[3][2]
            record == volatile_block[rt.point[3]]
            AcceptedTx(h) == Accepted(calls, "insert_tx", h)
            AcceptedDatum(d) == Accepted(calls, "insert_datum", d)
        IN /\ CallKeys(calls) = InsertOrder(live, txs)
           /\ record.txs = SelectSeq(txs, AcceptedTx)
           /\ \A h \in Range(txs) :
                 Has(volatile_tx, h) <=>
                    (AcceptedTx(h) \/ Has(rt.pre.volatile_tx, h))
           /\ record.datums =
                 SelectSeq(Flatten([i \in DOMAIN txs |-> Datums(txs[i])]),
                           AcceptedDatum)

\* a block of two txs, one of which an earlier indexer accepted and a later
\* indexer was invoked for all the same, and with an accepted datum
C26_Witness ==
    /\ rt.phase = "forward" /\ op = "roll_forward" /\ result = "ok"
    /\ Len(rt.point[3][2]) = 2
    /\ \E i, j \in DOMAIN calls :
          /\ i < j
          /\ calls[i].hook = "insert_tx" /\ calls[j].hook = "insert_tx"
          /\ calls[i].arg = calls[j].arg
          /\ calls[i].ret
    /\ volatile_block[rt.point[3]].datums # <<>>

\* the steps that undo the slots `todo` of the tables `pre`, greatest slot
\* first: the write transaction, delete_tx of every indexer per stored tx from
\* the last to the first, delete_datum of every indexer per stored datum from
\* the last to the first, the deletes of the slot's entries and the commit.
\* It ends at a slot whose block record is missing.
RECURSIVE UndoOrder(_, _, _)
UndoOrder(pre, ids, todo) ==
    IF todo = {} THEN <<>>
    ELSE LET slot == MaxOf(todo)
         IN IF ~Has(pre.volatile_block, pre.slots[slot]) THEN <<>>
            ELSE LET b == pre.volatile_block[pre.slots[slot]]
                     n == Len(b.txs)
                     m == Len(b.datums)
                 IN <<<<"write_txn", "", slot>>>> \o
                    Flatten([i \in 1..n |->
                        PerIndexer("delete_tx", ids, b.txs[n + 1 - i])]) \o
                    Flatten([i \in 1..m |->
                        PerIndexer("delete_datum", ids, b.datums[m + 1 - i])]) \o
                    <<<<"delete", "", slot>>, <<"commit", "", slot>>>> \o
                    UndoOrder(pre, ids, todo \ {slot})

\* C28: roll_backward to a point undoes the slots above it from the greatest
\* down, each in a write transaction of its own that is committed before the
\* next begins; in it delete_tx is invoked for the stored txs in reverse
\* order, every indexer for a tx before the next tx, then delete_datum for the
\* stored datums in reverse order, and then the slot's entries are deleted.
\* A call that fails has made a prefix of these steps.
C28_UndoOrder ==
    (/\ rt.phase = "rollback" /\ op = "roll_backward"
     /\ rt.point # Origin /\ result \in {"ok", "err"}) =>
        LET order == UndoOrder(rt.pre, live,
                               Above(rt.pre.slots, rt.point[2]))
        IN IF result = "ok" THEN CallKeys(calls) = order
           ELSE IsPrefix(CallKeys(calls), order)

\* two slots are undone, one of them with two stored txs and two stored datums
C28_Witness ==
    /\ rt.phase = "rollback" /\ op = "roll_backward" /\ result = "ok"
    /\ rt.point # Origin
    /\ Cardinality({i \in DOMAIN calls : calls[i].hook = "commit"}) = 2
    /\ \E s \in DOMAIN rt.pre.slots :
          /\ s > rt.point[2]
          /\ Len(rt.pre.volatile_block[rt.pre.slots[s]].txs) = 2
          /\ Len(rt.pre.volatile_block[rt.pre.slots[s]].datums) = 2
    /\ Len(live) = 3

\* C40: the secondary indexes of the UtxoIndexer agree with its utxos table:
\* by_address holds (address, pointer) exactly for the outputs stored in utxos
\* and by_asset holds (asset id, pointer) exactly for each asset of each output
\* stored in utxos
C40_IndexesAgree ==
    /\ by_address = {<<utxos[p].address, p>> : p \in DOMAIN utxos}
    /\ by_asset = UNION {{<<AssetIdFrom(utxos[p].assets[i]), p>> :
                             i \in DOMAIN utxos[p].assets} : p \in DOMAIN utxos}

\* a roll_backward has restored a spent output and removed the outputs of the
\* tx that spent it, and outputs with assets are stored
C40_Witness ==
    /\ op = "roll_backward" /\ result = "ok"
    /\ rt.phase = "back"
    /\ Has(utxos, Pointer(1, 0))
    /\ by_asset # {}
    /\ Has(volatile_tx, 2)

\* C33: a resize that found no reader changes the map exactly when the free
\* space is below 1 GiB or above 2 GiB, and the new map size is the smallest
\* multiple of the page size that is at least the old size plus 1 GiB
C33_ResizeRule ==
    (rt.phase = "resize" /\ result = "ok") =>
        /\ (map_size # rt.pre) <=>
              \/ rt.pre - page_size * last_page_number < minimum_free_space
              \/ rt.pre - page_size * last_page_number > 2 * minimum_free_space
        /\ (map_size # rt.pre) =>
              /\ map_size % page_size = 0
              /\ map_size >= rt.pre + minimum_free_space
              /\ map_size - page_size < rt.pre + minimum_free_space

\* C34: when Env::resize finds a reader it returns the error with the map
\* size as it was and the exclusive lock released, and the tables keep what
\* the call committed before the resize: the block of a roll_forward is in
\* slots
C34_FailedResizeReleases ==
    [][(pc = "clearing" /\ pc' = "return") =>
          /\ result' = "err"
          /\ excl' = None
          /\ map_size' = map_size
          /\ slots' = slots /\ volatile_block' = volatile_block
          /\ volatile_tx' = volatile_tx /\ utxos' = utxos
          /\ call.op = "roll_forward" => Has(slots', call.arg.slot)]_vars

\* a roll_forward has committed its block and returned the error of the
\* resize, and a reader has taken the lock since
C34_Witness ==
    /\ pc = "return" /\ result = "err"
    /\ call.op = "roll_forward" /\ Has(slots, call.arg.slot)
    /\ excl = None
    /\ rpc = "guarded"

\* C39: no snapshot is being copied while Env::resize changes the map
C39_SnapshotExcludesResize == ~(pc = "resizing" /\ snapshot = "copying")

(* ------------------- the headers pending a block-fetch ----------------- *)

\* the blocks of the headers among the responses r, in the order received
Headers(r) ==
    LET h == SelectSeq(r, LAMBDA x : x.kind = "RollForward")
    IN [i \in DOMAIN h |-> h[i].block]

\* the blocks of the RollForward events among the events e
ForwardBlocks(e) ==
    LET f == SelectSeq(e, LAMBDA x : x.kind = "RollForward")
    IN [i \in DOMAIN f |-> f[i].block]

\* how many headers the first k block-fetches asked for
RECURSIVE Covered(_)
Covered(k) == IF k = 0 THEN 0 ELSE Covered(k - 1) + fetches[k].points

\* the last response is one after which the pipeline flushes whatever is
\* pending: a header at the remote tip, a RollBackward or an Await
LastFlushes ==
    /\ received # <<>>
    /\ \/ received[Len(received)].kind # "RollForward"
       \/ received[Len(received)].block.slot = received[Len(received)].tip

\* C31: between two calls of Sync::next fewer than BLOCKFETCH_CONCURRENCY
\* headers are pending, and no block-fetch asks for more than
\* BLOCKFETCH_CONCURRENCY pending headers.
C31_PendingBelowConcurrency ==
    /\ spc = "next" => Len(pending_fetches) < BLOCKFETCH_CONCURRENCY
    /\ \A k \in DOMAIN fetches : fetches[k].points <= BLOCKFETCH_CONCURRENCY

\* a full batch was fetched and sent and a header is pending again
C31_Witness ==
    /\ spc = "next"
    /\ pending_fetches # <<>>
    /\ sent # <<>>
    /\ \E k \in DOMAIN fetches : fetches[k].points = BLOCKFETCH_CONCURRENCY

\* C32: when Sync::next has returned Ok for a header at the remote tip, a
\* RollBackward or an Await, nothing is pending and the RollForward events
\* sent are the blocks of all the headers received; every block-fetch asked
\* for the range from the first to the last header pending at that time.
C32_FlushLeavesNothingPending ==
    /\ (spc = "next" /\ LastFlushes) =>
          /\ pending_fetches = <<>>
          /\ ForwardBlocks(sent) = Headers(received)
    /\ \A k \in DOMAIN fetches :
          /\ fetches[k].points >= 1
          /\ Covered(k) <= Len(Headers(received))
          /\ fetches[k].start = Headers(received)[Covered(k - 1) + 1]
          /\ fetches[k].end = Headers(received)[Covered(k)]

\* a header at the tip was flushed on its own after an earlier batch
C32_Witness ==
    /\ spc = "next" /\ LastFlushes
    /\ received[Len(received)].kind = "RollForward"
    /\ Len(fetches) = 2
    /\ fetches[2].points = 1
    /\ Len(sent) >= 3

(* --------------------- the Db calls of write_event -------------------- *)

\* the names of the Db calls c, in order
CallNames(c) == [i \in DOMAIN c |-> c[i].fn]

\* C35: the writer calls trim_volatile and persist only after the
\* roll_forward of the same event returned Ok, persist only right after a
\* trim_volatile that returned Ok and always after such a one, exactly when
\* the block's slot is above (tip - TipWindow, saturating at 0) or its number
\* is a multiple of TrimEvery; a RollBackward event makes roll_backward only.
C35_TrimThenPersist ==
    written.calls # <<>> =>
       /\ written.event.kind = "RollBackward" =>
             CallNames(written.calls) = <<"roll_backward">>
       /\ written.event.kind = "RollForward" =>
             /\ CallNames(written.calls) \in
                   {<<"roll_forward">>, <<"roll_forward", "trim_volatile">>,
                    <<"roll_forward", "trim_volatile", "persist">>}
             /\ Len(written.calls) >= 2 => written.calls[1].ok
             /\ Len(written.calls) = 2 => ~written.calls[2].ok
             /\ Len(written.calls) = 3 => written.calls[2].ok
             /\ written.calls[1].ok =>
                   (Len(written.calls) >= 2 <=>
                      \/ written.event.block.slot >
                            (IF written.event.tip >= TipWindow
                             THEN written.event.tip - TipWindow ELSE 0)
                      \/ written.event.block.slot % TrimEvery = 0)

\* a block away from the tip whose number is a multiple of TrimEvery was
\* rolled forward, trimmed and persisted
C35_Witness ==
    /\ written.event.kind = "RollForward"
    /\ written.event.block.slot + TipWindow <= written.event.tip
    /\ Len(written.calls) = 3
    /\ written.calls[3].ok
    /\ wtask = "running"

(* ------------------------ a failure of the writer --------------------- *)

\* C37: once write_event has failed, nothing more is applied to the
\* database, the task stays ended with that error, the events in the channel
\* stay there unapplied, no send is accepted (a pending send ends the run
\* with an error) and Writer::stop returns that error.
C37_FailureIsFinal ==
    /\ [](wtask = "failed" =>
            /\ ~written.calls[Len(written.calls)].ok
            /\ stop_result.out # "none" =>
                  /\ stop_result.out = "err"
                  /\ stop_result.event = <<written.event>>
                  /\ stop_result.fn = written.calls[Len(written.calls)].fn)
    /\ [][wtask = "failed" =>
            /\ UNCHANGED <<tables, applied, wtask, written, queue, sent>>
            /\ (spc = "sending" /\ spc' # spc) => spc' \in {"failed", "stopped"}
         ]_vars

\* persist failed after two events were applied, another event was left in
\* the channel, and stop has returned the error of persist
C37_Witness ==
    /\ wtask = "failed"
    /\ queue # <<>>
    /\ Len(applied) >= 2
    /\ stop_result.out = "err" /\ stop_result.fn = "persist"

(* ------------------------------ progress ------------------------------ *)

\* C36: once Writer::stop has dropped the send handle and sent the shutdown
\* signal, it eventually returns, whatever the channel holds and whether the
\* writer task runs or has ended with an error, unless the application of
\* an event never terminates.
C36_StopReturns == shutdown ~> (stop_result.out # "none" \/ hung)

\* stop has returned Ok with an event left in the channel
C36_Witness ==
    /\ stop_result.out = "ok"
    /\ queue # <<>>
    /\ applied # <<>>

\* C38: the i-th header received is eventually sent to the writer as a
\* RollForward event, unless the run ends with an error or is cancelled or
\* the writer stops consuming; and until then it is in pending_fetches or
\* among the events of the flush being sent.
C38_HeadersAreEmitted ==
    /\ \A i \in 1..MaxResponses :
          (Len(Headers(received)) >= i) ~>
             \/ Len(ForwardBlocks(sent)) >= i
             \/ spc \in {"failed", "stopped"}
             \/ hung
    /\ [](spc = "next" =>
            ForwardBlocks(sent) \o [i \in DOMAIN pending_fetches |->
                                       pending_fetches[i].block]
               = Headers(received))
    /\ [](spc = "sending" =>
            ForwardBlocks(sent \o tosend) = Headers(received))

\* a header away from the tip waited for an Await and was then sent
C38_Witness ==
    /\ spc = "next"
    /\ received # <<>> /\ received[Len(received)].kind = "Await"
    /\ sent # <<>> /\ sent[Len(sent)].kind = "RollForward"
    /\ sent[Len(sent)].tip # sent[Len(sent)].block.slot
    /\ fetches # <<>> /\ fetches[Len(fetches)].points = 1

====
